---- MODULE Spec2Model ----
(***************************************************************************)
(* The local datastore of MONAI Label                                      *)
(* (monailabel/utils/datastore/local_v2.py): a file-backed index of images *)
(* and their tagged labels, persisted as one JSON document and reconciled  *)
(* against the files actually on disk.                                     *)
(*                                                                         *)
(* File names and ids are sequences of tokens ("a", "+", "v", ".nii"), so  *)
(* that the string operations of the code (suffixes, replace, split) are   *)
(* computed and not assumed.  Dictionaries are sequences of entries with   *)
(* unique keys, in insertion order, as Python dictionaries are.            *)
(***************************************************************************)
EXTENDS Integers, Sequences, FiniteSets, TLC

VARIABLES
    fs,         \* the file system: path -> "file" | "dir", for the paths that exist
    cfg,        \* the persisted index file: [exists, doc, valid, mtime]
    now,        \* the clock (time.time(), st_mtime)
    cwd,        \* the directory relative paths resolve in: "ds" or "cwd"
    ds,         \* per instance: self._datastore (LocalDatastoreModel)
    config_ts,  \* per instance: self._config_ts
    names,      \* the image ids the callers of this run use
    nops,       \* operations performed so far
    last,       \* the last operation: what was called and how it ended
    auto_reload,         \* self._auto_reload of instance 1: the watcher runs
    thread_local,        \* the FileLock of the build keeps its state per thread
    holders,             \* the threads of instance 1 inside self._lock
    pc,                  \* per thread of instance 1: where it is in its handler
    frame,               \* per thread: the arguments and locals of its handler
    ignore_event_config, \* self._ignore_event_config of instance 1
    ignore_event_count,  \* self._ignore_event_count of instance 1
    events,              \* file system events the observer has yet to dispatch
    did                  \* the last step of a thread: which thread, what it did

\* The state of the threads of instance 1 and of its watcher
threads == <<auto_reload, thread_local, holders, pc, frame, ignore_event_config,
             ignore_event_count, events, did>>

vars == <<fs, cfg, now, cwd, ds, config_ts, names, nops, last, threads>>

----------------------------------------------------------------------------
(* Bounds *)

MaxTime == 2
MaxOps == 2
MaxSharedOps == 2
MaxReconcileOps == 4

Procs == {1, 2}
ImageIdSets == {{<<"a">>, <<"b">>}, {<<"a">>, <<"a", "+", "v">>}}
LabelIdArgs == {<<>>, <<"v">>}
SourceExts == {<<".nii">>}
Kinds == {"file", "dir"}
InfoArgs == {"k" :> 1, "ts" :> 0}
LabelInfoArgs == {"k" :> 1}
ImageExts == {<<".nii">>, <<".png">>}
MaxImageOps == 2
MaxReloadOps == 2

----------------------------------------------------------------------------
(* Program constants *)

FINAL == "final"
ORIGINAL == "original"
Tags == {FINAL, ORIGINAL}

\* extensions=("*.nii.gz", "*.nii")
Extensions == {<<".nii", ".gz">>, <<".nii">>}
DotTokens == {".nii", ".gz", ".png"}

EmptyInfo == [k \in {} |-> 0]

----------------------------------------------------------------------------
(* Strings *)

Range(s) == {s[i] : i \in 1..Len(s)}

Min(S) == CHOOSE x \in S : \A y \in S : x <= y

\* "".join(pathlib.Path(name).suffixes): everything from the first dot that is
\* not a leading one.
Suffixes(name) ==
    LET dots == {i \in 2..Len(name) : name[i] \in DotTokens}
    IN  IF dots = {} THEN <<>> ELSE SubSeq(name, Min(dots), Len(name))

StartsWithAt(s, sub, i) ==
    /\ i + Len(sub) - 1 <= Len(s)
    /\ \A j \in 1..Len(sub) : s[i + j - 1] = sub[j]

\* s.replace(sub, ""): every occurrence, leftmost first.
RECURSIVE ReplaceFrom(_, _, _)
ReplaceFrom(s, sub, i) ==
    IF i > Len(s) THEN <<>>
    ELSE IF StartsWithAt(s, sub, i) THEN ReplaceFrom(s, sub, i + Len(sub))
    ELSE <<s[i]>> \o ReplaceFrom(s, sub, i + 1)

Replace(s, sub) == IF sub = <<>> THEN s ELSE ReplaceFrom(s, sub, 1)

\* s.split("+")[0]
SplitPlus0(s) ==
    LET ps == {i \in 1..Len(s) : s[i] = "+"}
    IN  IF ps = {} THEN s ELSE SubSeq(s, 1, Min(ps) - 1)

EndsWith(s, suf) ==
    /\ Len(suf) <= Len(s)
    /\ SubSeq(s, Len(s) - Len(suf) + 1, Len(s)) = suf

\* fnmatch.filter(files, "*" + ext) for one of the configured patterns
Matches(name) == \E e \in Extensions : EndsWith(name, e)

----------------------------------------------------------------------------
(* Entries and the Index *)

DataModel(id, ext, info) == [id |-> id, ext |-> ext, info |-> info]

\* DataModel.path
path(d) == d.id \o d.ext

ImageLabelModel(key, image) == [key |-> key, image |-> image, labels |-> <<>>]

\* dict.get on the labels of a group: the position of the tag, 0 if absent
TagPos(obj, tag) ==
    LET ps == {i \in 1..Len(obj.labels) : obj.labels[i].tag = tag}
    IN  IF ps = {} THEN 0 ELSE Min(ps)

HasTag(obj, tag) == TagPos(obj, tag) # 0

LabelOf(obj, tag) == obj.labels[TagPos(obj, tag)].label

\* obj.labels[tag] = label
SetLabel(obj, tag, label) ==
    IF HasTag(obj, tag)
    THEN [obj EXCEPT !.labels[TagPos(obj, tag)].label = label]
    ELSE [obj EXCEPT !.labels = Append(@, [tag |-> tag, label |-> label])]

\* dict.get on objects: the position of the key, 0 if absent
KeyPos(objects, key) ==
    LET ps == {i \in 1..Len(objects) : objects[i].key = key}
    IN  IF ps = {} THEN 0 ELSE Min(ps)

HasKey(objects, key) == KeyPos(objects, key) # 0

ObjOf(objects, key) == objects[KeyPos(objects, key)]

NoLabel == [found |-> FALSE, tag |-> "", label |-> DataModel(<<>>, <<>>, EmptyInfo)]

\* ImageLabelModel.label: the first label of the group with this id, as
\* (tag, label), or (None, None).
ImageLabelModel_label(obj, id) ==
    LET ps == {i \in 1..Len(obj.labels) : obj.labels[i].label.id = id}
    IN  IF ps = {} THEN NoLabel
        ELSE [found |-> TRUE, tag |-> obj.labels[Min(ps)].tag,
              label |-> obj.labels[Min(ps)].label]

\* bool() of what ImageLabelModel.label returns: a 2-tuple, (None, None)
\* included, is never empty.
TupleTruthy(r) == TRUE

\* LocalDatastoreModel.filter_by_tag
filter_by_tag(objects, tag) ==
    LET T(obj) == HasTag(obj, tag) IN SelectSeq(objects, T)

\* LocalDatastoreModel.filter_by_id
filter_by_id(objects, id) ==
    LET T(obj) == TupleTruthy(ImageLabelModel_label(obj, id)) IN SelectSeq(objects, T)

\* LocalDatastoreModel.label
LocalDatastoreModel_label(objects, id) ==
    LET objs == filter_by_id(objects, id)
    IN  IF objs # <<>> THEN ImageLabelModel_label(Head(objs), id) ELSE NoLabel

\* LocalDatastoreModel.tags
tags(objects) ==
    UNION {{objects[i].labels[j].tag : j \in 1..Len(objects[i].labels)} :
           i \in 1..Len(objects)}

NewDatastore ==
    [name |-> "new-dataset", description |-> "New Dataset", images_dir |-> ".",
     labels_dir |-> "labels", objects |-> <<>>, base_path |-> "ds"]

----------------------------------------------------------------------------
(* The file system *)

\* A path: the directory relative paths resolve in, the directory of the
\* datastore (images_dir or labels_dir), the tag directory and the file name.
\* An empty name is the directory itself.
Path(root, dir, tag, name) == [root |-> root, dir |-> dir, tag |-> tag, name |-> name]

\* os.path.join(self.base_path, x) if self.base_path else x
Resolve(base_path) == IF base_path = "" THEN cwd ELSE base_path

\* LocalDatastoreModel.image_path, joined with a file name
ImageFile(d, name) == Path(Resolve(d.base_path), d.images_dir, "", name)

\* LocalDatastoreModel.label_path(tag), joined with a file name
LabelFile(d, tag, name) == Path(Resolve(d.base_path), d.labels_dir, tag, name)

label_path(d, tag) == LabelFile(d, tag, <<>>)

Exists(f, p) == p \in DOMAIN f

Without(f, p) == [q \in DOMAIN f \ {p} |-> f[q]]

\* os.makedirs(label_path, exist_ok=True)
MakeDirs(f, d, tag) ==
    [q \in {label_path(d, ""), label_path(d, tag)} |-> "dir"] @@ f

\* shutil.copytree(src, dest) for a directory, shutil.copy(src, dest) for a file
CopyResult(f, kind, dest) ==
    IF kind = "dir" /\ Exists(f, dest) THEN "FileExistsError" ELSE "ok"

Copy(f, kind, dest) ==
    IF kind = "dir"
    THEN IF Exists(f, dest) THEN f ELSE (dest :> "dir") @@ f
    ELSE IF Exists(f, dest) /\ f[dest] = "dir"
         THEN f                     \* copied into the directory
         ELSE (dest :> "file") @@ f \* created or overwritten

\* shutil.rmtree(p)
RmtreeResult(f, p) == IF f[p] = "dir" THEN "ok" ELSE "NotADirectoryError"

Rmtree(f, p) == IF f[p] = "dir" THEN Without(f, p) ELSE f

\* self._list_files(path, self._extensions), as the set of names; the order is
\* that of os.listdir
ListImageFiles(f, d) ==
    {q.name : q \in {q \in DOMAIN f :
        /\ q.root = Resolve(d.base_path) /\ q.dir = d.images_dir
        /\ q.tag = "" /\ q.name # <<>> /\ Matches(q.name)}}

ListLabelFiles(f, d, tag) ==
    {q.name : q \in {q \in DOMAIN f :
        /\ q.root = Resolve(d.base_path) /\ q.dir = d.labels_dir
        /\ q.tag = tag /\ q.name # <<>> /\ Matches(q.name)}}

\* [f for f in os.listdir(labels_dir) if os.path.isdir(os.path.join(labels_dir, f))]
ListTags(f, d) ==
    {q.tag : q \in {q \in DOMAIN f :
        /\ q.root = Resolve(d.base_path) /\ q.dir = d.labels_dir
        /\ q.tag # "" /\ q.name = <<>> /\ f[q] = "dir"}}

----------------------------------------------------------------------------
(* Persistence *)

\* self._datastore.dict(exclude={"base_path"}) written as JSON: objects become
\* key/value members
DumpEntry(e) == [id |-> e.id, ext |-> e.ext, info |-> e.info]

DumpObj(obj) ==
    [k |-> obj.key,
     v |-> [image |-> DumpEntry(obj.image),
            labels |-> [j \in 1..Len(obj.labels) |->
                           [k |-> obj.labels[j].tag,
                            v |-> DumpEntry(obj.labels[j].label)]]]]

Dump(d) ==
    [name |-> d.name, description |-> d.description, images_dir |-> d.images_dir,
     labels_dir |-> d.labels_dir,
     objects |-> [i \in 1..Len(d.objects) |-> DumpObj(d.objects[i])]]

\* A reader that loses the info of the label Entries: the round trip C6 rules
\* out.
Parse_LosingLabelInfo(doc) ==
    [name |-> doc.name, description |-> doc.description, images_dir |-> doc.images_dir,
     labels_dir |-> doc.labels_dir,
     objects |-> [i \in 1..Len(doc.objects) |->
                    [key |-> doc.objects[i].k,
                     image |-> DataModel(doc.objects[i].v.image.id,
                                         doc.objects[i].v.image.ext,
                                         doc.objects[i].v.image.info),
                     labels |-> [j \in 1..Len(doc.objects[i].v.labels) |->
                        [tag |-> doc.objects[i].v.labels[j].k,
                         label |-> DataModel(doc.objects[i].v.labels[j].v.id,
                                             doc.objects[i].v.labels[j].v.ext,
                                             EmptyInfo)]]]],
     base_path |-> ""]

\* LocalDatastoreModel.parse_file: base_path is not in the document and takes
\* its default
ParseObj(m) ==
    [key |-> m.k,
     image |-> DataModel(m.v.image.id, m.v.image.ext, m.v.image.info),
     labels |-> [j \in 1..Len(m.v.labels) |->
                    [tag |-> m.v.labels[j].k,
                     label |-> DataModel(m.v.labels[j].v.id, m.v.labels[j].v.ext,
                                         m.v.labels[j].v.info)]]]

Parse(doc) ==
    [name |-> doc.name, description |-> doc.description, images_dir |-> doc.images_dir,
     labels_dir |-> doc.labels_dir,
     objects |-> [i \in 1..Len(doc.objects) |-> ParseObj(doc.objects[i])],
     base_path |-> ""]

NoDoc == Dump(NewDatastore)

\* The state one handler works on: the file system, the index file, and the
\* instance's own _datastore and _config_ts; res is "ok" or the exception that
\* ended the handler, n the invalidation count of the last reconciliation,
\* locked whether the handler holds self._lock.
St(f, c, d, ts) ==
    [fs |-> f, cfg |-> c, d |-> d, ts |-> ts, res |-> "ok", n |-> 0, locked |-> FALSE]

\* LocalDatastore._update_datastore_file
update_datastore_file(s) ==
    [s EXCEPT !.cfg = [exists |-> TRUE, doc |-> Dump(s.d), valid |-> TRUE,
                       mtime |-> now],
              !.ts = now]

\* A reload that lets the ValueError of a file that does not parse out to
\* the caller, the lock still held: what C20 rules out for a later reload.
init_from_datastore_file_Raising(s) ==
    IF s.cfg.exists /\ s.ts # s.cfg.mtime
    THEN IF s.cfg.valid
         THEN [s EXCEPT !.d = Parse(s.cfg.doc), !.ts = s.cfg.mtime]
         ELSE [s EXCEPT !.res = "ValueError", !.locked = TRUE]
    ELSE s

\* A reload that parses the file whatever its timestamp is: what C18 rules
\* out.
init_from_datastore_file_Always(s) ==
    IF s.cfg.exists /\ s.cfg.valid
    THEN [s EXCEPT !.d = Parse(s.cfg.doc), !.ts = s.cfg.mtime]
    ELSE s

\* LocalDatastore._init_from_datastore_file
init_from_datastore_file(s) ==
    LET held == [s EXCEPT !.locked = TRUE]      \* with self._lock:
        done == IF held.cfg.exists /\ held.ts # held.cfg.mtime
                THEN IF held.cfg.valid
                     THEN [held EXCEPT !.d = Parse(held.cfg.doc), !.ts = held.cfg.mtime]
                     ELSE held  \* parse_file raised ValueError: logged, nothing assigned
                ELSE held
    IN  [done EXCEPT !.locked = FALSE]          \* the with block is left

----------------------------------------------------------------------------
(* The Reconciler *)

Keys(objects) == {objects[i].key : i \in 1..Len(objects)}

\* self._datastore.objects[key] = obj
SetObj(objects, key, obj) ==
    IF HasKey(objects, key)
    THEN [objects EXCEPT ![KeyPos(objects, key)] = obj]
    ELSE Append(objects, obj)

\* LocalDatastore._remove_non_existing: the objects kept and the count
remove_non_existing(f, d) ==
    LET KeepObj(obj) == Exists(f, ImageFile(d, path(obj.image)))
        KeepLabel(l) == Exists(f, LabelFile(d, l.tag, path(l.label)))
        kept == SelectSeq(d.objects, KeepObj)
        gone == UNION {{<<i, j>> : j \in {j \in 1..Len(kept[i].labels) :
                                            ~KeepLabel(kept[i].labels[j])}}
                       : i \in 1..Len(kept)}
    IN  [objects |-> [i \in 1..Len(kept) |->
                        [kept[i] EXCEPT !.labels = SelectSeq(@, KeepLabel)]],
         n |-> (Len(d.objects) - Len(kept)) + Cardinality(gone)]

\* The loop of _add_non_existing_images over the files not yet in the
\* Index, in every order os.listdir can give them in (a file whose id is
\* in image_ids is skipped wherever it comes).
RECURSIVE AddImagesFrom(_, _, _)
AddImagesFrom(pending, objects, n) ==
    IF pending = {} THEN {[objects |-> objects, n |-> n]}
    ELSE UNION {
        LET image_ext == Suffixes(image_file)
            image_id == Replace(image_file, image_ext)
        IN  AddImagesFrom(pending \ {image_file},
                SetObj(objects, image_id,
                       ImageLabelModel(image_id, DataModel(image_id, image_ext, EmptyInfo))),
                n + 1)
        : image_file \in pending}

\* A discovery pass that finds no image: with it the Index does not follow
\* the image root, which C17 rules out.
add_non_existing_images_None(f, d) == {[objects |-> d.objects, n |-> 0]}

\* LocalDatastore._add_non_existing_images
add_non_existing_images(f, d) ==
    LET image_ids == Keys(d.objects)
        pending == {image_file \in ListImageFiles(f, d) :
                        Replace(image_file, Suffixes(image_file)) \notin image_ids}
    IN  AddImagesFrom(pending, d.objects, 0)

\* A loop that files a label whose image has no group under the first group
\* instead of skipping it: the reconciler C5 rules out.
RECURSIVE AddLabelsFrom_AdoptingOrphans(_, _, _, _)
AddLabelsFrom_AdoptingOrphans(pending, objects, tag, n) ==
    IF pending = {} THEN {[objects |-> objects, n |-> n]}
    ELSE UNION {
        LET label_ext == Suffixes(label_file)
            label_id == Replace(label_file, label_ext)
            image_id == SplitPlus0(label_id)
            i == IF HasKey(objects, image_id) THEN KeyPos(objects, image_id) ELSE 1
        IN  IF objects = <<>>
            THEN AddLabelsFrom_AdoptingOrphans(pending \ {label_file}, objects, tag, n)
            ELSE AddLabelsFrom_AdoptingOrphans(pending \ {label_file},
                    [objects EXCEPT ![i] =
                        SetLabel(@, tag, DataModel(label_id, label_ext, EmptyInfo))],
                    tag, n + 1)
        : label_file \in pending}

\* The loop of _add_non_existing_labels over the files whose id is not in
\* label_ids, in every order os.listdir can give them in.
RECURSIVE AddLabelsFrom(_, _, _, _)
AddLabelsFrom(pending, objects, tag, n) ==
    IF pending = {} THEN {[objects |-> objects, n |-> n]}
    ELSE UNION {
        LET label_ext == Suffixes(label_file)
            label_id == Replace(label_file, label_ext)
            image_id == SplitPlus0(label_id)
        IN  IF ~HasKey(objects, image_id)
            THEN AddLabelsFrom(pending \ {label_file}, objects, tag, n)
            ELSE AddLabelsFrom(pending \ {label_file},
                    [objects EXCEPT ![KeyPos(objects, image_id)] =
                        SetLabel(@, tag, DataModel(label_id, label_ext, EmptyInfo))],
                    tag, n + 1)
        : label_file \in pending}

\* LocalDatastore._add_non_existing_labels
add_non_existing_labels(f, d, tag) ==
    LET objs == filter_by_tag(d.objects, tag)
        label_ids == {LabelOf(objs[i], tag).id : i \in 1..Len(objs)}
        pending == {label_file \in ListLabelFiles(f, d, tag) :
                        Replace(label_file, Suffixes(label_file)) \notin label_ids}
    IN  AddLabelsFrom(pending, d.objects, tag, 0)

\* for tag in tags: invalidate += self._add_non_existing_labels(tag), the tag
\* directories in every order os.listdir can give them in
RECURSIVE AddLabelsOfTags(_, _, _, _)
AddLabelsOfTags(todo, f, d, n) ==
    IF todo = {} THEN {[objects |-> d.objects, n |-> n]}
    ELSE UNION {
        UNION {AddLabelsOfTags(todo \ {tag}, f, [d EXCEPT !.objects = r.objects], n + r.n)
               : r \in add_non_existing_labels(f, d, tag)}
        : tag \in todo}

\* LocalDatastore._reconcile_datastore: the states it can end in
reconcile_datastore(s) ==
    LET r1 == remove_non_existing(s.fs, s.d)
        d1 == [s.d EXCEPT !.objects = r1.objects]
    IN  UNION {
          LET d2 == [d1 EXCEPT !.objects = r2.objects] IN
          IF ~Exists(s.fs, label_path(d2, ""))
          THEN {[s EXCEPT !.d = d2, !.res = "FileNotFoundError",
                          !.n = r1.n + r2.n]}
          ELSE {
            LET d3 == [d2 EXCEPT !.objects = r3.objects]
                r4 == remove_non_existing(s.fs, d3)
                d4 == [d3 EXCEPT !.objects = r4.objects]
                invalidate == r1.n + r2.n + r3.n + r4.n
                s4 == [s EXCEPT !.d = d4, !.n = invalidate]
            IN  IF invalidate # 0 THEN update_datastore_file(s4) ELSE s4
            : r3 \in AddLabelsOfTags(ListTags(s.fs, d2), s.fs, d2, 0)}
          : r2 \in add_non_existing_images(s.fs, d1)}

\* LocalDatastore.refresh
refresh(s) == reconcile_datastore(init_from_datastore_file(s))

----------------------------------------------------------------------------
(* Queries *)

\* LocalDatastore.list_images
list_images(d) == [i \in 1..Len(d.objects) |-> d.objects[i].key]

\* The images with a label under any tag: what C7 tells from the images with
\* a 'final' label.
get_labeled_images_AnyTag(d) ==
    LET T(obj) == obj.labels # <<>>
        objs == SelectSeq(d.objects, T)
    IN  [i \in 1..Len(objs) |-> objs[i].image.id]

\* LocalDatastore.get_labeled_images
get_labeled_images(d) ==
    LET objs == filter_by_tag(d.objects, FINAL)
    IN  [i \in 1..Len(objs) |-> objs[i].image.id]

\* The images with no label at all: not the complement C8 asks for.
get_unlabeled_images_NoLabels(d) ==
    LET T(obj) == obj.labels = <<>>
        objs == SelectSeq(d.objects, T)
    IN  [i \in 1..Len(objs) |-> objs[i].image.id]

\* LocalDatastore.get_unlabeled_images
get_unlabeled_images(d) ==
    LET T(obj) == ~HasTag(obj, FINAL)
        objs == SelectSeq(d.objects, T)
    IN  [i \in 1..Len(objs) |-> objs[i].image.id]

\* LocalDatastore.get_labels_by_image_id: {label.id: tag}, as the sequence of
\* its keys in insertion order and the tag each key ends with
LabelIdsOf(obj) ==
    LET ids == [j \in 1..Len(obj.labels) |-> obj.labels[j].label.id]
        First(j) == \A k \in 1..(j - 1) : ids[k] # ids[j]
        firsts == {j \in 1..Len(ids) : First(j)}
        RECURSIVE InOrder(_)
        InOrder(S) == IF S = {} THEN <<>> ELSE <<ids[Min(S)]>> \o InOrder(S \ {Min(S)})
    IN  InOrder(firsts)

get_labels_by_image_id(d, image_id) ==
    IF HasKey(d.objects, image_id)
    THEN LET obj == ObjOf(d.objects, image_id)
             ids == LabelIdsOf(obj)
             LastTag(id) ==
                obj.labels[CHOOSE j \in 1..Len(obj.labels) :
                    /\ obj.labels[j].label.id = id
                    /\ \A k \in (j + 1)..Len(obj.labels) : obj.labels[k].label.id # id].tag
         IN  [i \in 1..Len(ids) |-> [id |-> ids[i], tag |-> LastTag(ids[i])]]
    ELSE <<>>

\* LocalDatastore.get_label_by_image_id; "" is the empty id
get_label_by_image_id(d, image_id, tag) ==
    IF HasKey(d.objects, image_id) /\ HasTag(ObjOf(d.objects, image_id), tag)
    THEN LabelOf(ObjOf(d.objects, image_id), tag).id
    ELSE <<>>

\* LocalDatastore.get_label_info
get_label_info(d, label_id) ==
    LET r == LocalDatastoreModel_label(d.objects, label_id)
    IN  IF r.found THEN r.label.info ELSE EmptyInfo

\* LocalDatastore.get_label_uri: the path of the label file, or "" (NoPath)
NoPath == Path("", "", "", <<>>)

get_label_uri(d, label_id) ==
    LET r == LocalDatastoreModel_label(d.objects, label_id)
    IN  IF r.found THEN LabelFile(d, r.tag, path(r.label)) ELSE NoPath

\* LocalDatastoreModel.datalist
datalist(d, tag) ==
    LET objs == filter_by_tag(d.objects, tag)
    IN  [i \in 1..Len(objs) |->
            [image |-> ImageFile(d, path(objs[i].image)),
             label |-> LabelFile(d, tag, path(LabelOf(objs[i], tag)))]]

\* The loops of status: tags[tag] = tags.get(tag, 0) + 1 for every label of
\* every object
RECURSIVE CountTags(_, _, _, _)
CountTags(objects, i, j, counts) ==
    IF i > Len(objects) THEN counts
    ELSE IF j > Len(objects[i].labels) THEN CountTags(objects, i + 1, 1, counts)
    ELSE LET tag == objects[i].labels[j].tag
             seen == IF tag \in DOMAIN counts THEN counts[tag] ELSE 0
         IN  CountTags(objects, i, j + 1, (tag :> (seen + 1)) @@ counts)

\* LocalDatastore.status
status(d) ==
    [total |-> Len(list_images(d)),
     completed |-> Len(get_labeled_images(d)),
     label_tags |-> CountTags(d.objects, 1, 1, EmptyInfo),
     train |-> datalist(d, FINAL)]

----------------------------------------------------------------------------
(* The operations of the Facade, on the state of one handler.  Each gives *)
(* the set of states the handler can end in; res names the exception that *)
(* ended it, if any.                                                      *)

\* LocalDatastore.add_image
ImageIdOf(image_id, image_filename) ==
    IF image_id = <<>> THEN Replace(image_filename, Suffixes(image_filename))
    ELSE image_id

add_image(s, image_id, image_filename, kind) ==
    LET image_ext == Suffixes(image_filename)
        id == ImageIdOf(image_id, image_filename)
        dest == ImageFile(s.d, id \o image_ext)
    IN  IF CopyResult(s.fs, kind, dest) # "ok"
        THEN {[s EXCEPT !.res = CopyResult(s.fs, kind, dest)]}
        ELSE refresh([s EXCEPT !.fs = Copy(s.fs, kind, dest)])

\* LocalDatastore.remove_label
remove_label(s, label_id) ==
    LET r == LocalDatastoreModel_label(s.d.objects, label_id)
        p == LabelFile(s.d, r.tag, path(r.label))
    IN  IF r.found /\ Exists(s.fs, p)
        THEN IF RmtreeResult(s.fs, p) # "ok"
             THEN {[s EXCEPT !.res = RmtreeResult(s.fs, p)]}
             ELSE refresh([s EXCEPT !.fs = Rmtree(s.fs, p)])
        ELSE refresh(s)

\* for label_id in label_ids: self.remove_label(label_id)
RECURSIVE RemoveLabels(_, _)
RemoveLabels(S, label_ids) ==
    IF label_ids = <<>> THEN S
    ELSE RemoveLabels(
            UNION {IF s.res = "ok" THEN remove_label(s, Head(label_ids)) ELSE {s}
                   : s \in S},
            Tail(label_ids))

\* A remove_image that takes an unknown id for the first image of the Index
\* when it removes the labels: not the no-op of C16.
remove_image_FirstForUnknown(s, image_id) ==
    LET known == HasKey(s.d.objects, image_id) \/ s.d.objects = <<>>
        ids == get_labels_by_image_id(s.d, IF known THEN image_id
                                           ELSE s.d.objects[1].key)
        label_ids == [i \in 1..Len(ids) |-> ids[i].id]
    IN  UNION {
          IF s1.res # "ok" THEN {s1}
          ELSE IF HasKey(s1.d.objects, image_id)
                  /\ Exists(s1.fs, ImageFile(s1.d, path(ObjOf(s1.d.objects, image_id).image)))
               THEN LET p == ImageFile(s1.d, path(ObjOf(s1.d.objects, image_id).image))
                    IN  IF RmtreeResult(s1.fs, p) # "ok"
                        THEN {[s1 EXCEPT !.res = RmtreeResult(s1.fs, p)]}
                        ELSE refresh([s1 EXCEPT !.fs = Rmtree(s1.fs, p)])
               ELSE refresh(s1)
          : s1 \in RemoveLabels({s}, label_ids)}

\* LocalDatastore.remove_image
remove_image(s, image_id) ==
    LET ids == get_labels_by_image_id(s.d, image_id)
        label_ids == [i \in 1..Len(ids) |-> ids[i].id]
    IN  UNION {
          IF s1.res # "ok" THEN {s1}
          ELSE IF HasKey(s1.d.objects, image_id)
                  /\ Exists(s1.fs, ImageFile(s1.d, path(ObjOf(s1.d.objects, image_id).image)))
               THEN LET p == ImageFile(s1.d, path(ObjOf(s1.d.objects, image_id).image))
                    IN  IF RmtreeResult(s1.fs, p) # "ok"
                        THEN {[s1 EXCEPT !.res = RmtreeResult(s1.fs, p)]}
                        ELSE refresh([s1 EXCEPT !.fs = Rmtree(s1.fs, p)])
               ELSE refresh(s1)
          : s1 \in RemoveLabels({s}, label_ids)}

\* LocalDatastore.remove_label_by_tag
remove_label_by_tag(s, label_tag) ==
    LET objs == filter_by_tag(s.d.objects, label_tag)
        label_ids == [i \in 1..Len(objs) |-> LabelOf(objs[i], label_tag).id]
    IN  RemoveLabels({s}, label_ids)

\* A save_label that copies the file before it looks the image up: what C9
\* rules out.
save_label_CopyFirst(s, image_id, label_ext, kind, label_tag, label_info, label_id) ==
    LET id == IF label_id = <<>> THEN image_id ELSE image_id \o <<"+">> \o label_id
        dest == LabelFile(s.d, label_tag, id \o label_ext)
        f1 == MakeDirs(s.fs, s.d, label_tag)
    IN  IF CopyResult(f1, kind, dest) # "ok"
        THEN [s EXCEPT !.fs = f1, !.res = CopyResult(f1, kind, dest)]
        ELSE IF ~HasKey(s.d.objects, image_id)
        THEN [s EXCEPT !.fs = Copy(f1, kind, dest), !.res = "ImageNotFoundException"]
        ELSE update_datastore_file(
                [s EXCEPT !.fs = Copy(f1, kind, dest),
                          !.d.objects[KeyPos(s.d.objects, image_id)] =
                              SetLabel(@, label_tag,
                                       DataModel(id, label_ext, "ts" :> now))])

\* A save_label that takes the label id it is given as the id of the label:
\* what C32 rules out.
LabelIdOf_AsGiven(image_id, label_id) ==
    IF label_id = <<>> THEN image_id ELSE label_id

\* LocalDatastore.save_label: the id of the label it saves
LabelIdOf(image_id, label_id) ==
    IF label_id = <<>> THEN image_id ELSE image_id \o <<"+">> \o label_id

save_label(s, image_id, label_ext, kind, label_tag, label_info, label_id) ==
    IF ~HasKey(s.d.objects, image_id)
    THEN [s EXCEPT !.res = "ImageNotFoundException"]
    ELSE LET id == LabelIdOf(image_id, label_id)
             dest == LabelFile(s.d, label_tag, id \o label_ext)
             f1 == MakeDirs(s.fs, s.d, label_tag)
         IN  IF CopyResult(f1, kind, dest) # "ok"
             THEN [s EXCEPT !.fs = f1, !.res = CopyResult(f1, kind, dest)]
             ELSE update_datastore_file(
                    [s EXCEPT !.fs = Copy(f1, kind, dest),
                              !.d.objects[KeyPos(s.d.objects, image_id)] =
                                  SetLabel(@, label_tag,
                                           DataModel(id, label_ext, "ts" :> now))])

\* info.update(info)
Update(old, info) == info @@ old

\* An update_image_info that absorbs the missing image and returns: what C11
\* rules out.
update_image_info_Absorbing(s, image_id, info) ==
    IF ~HasKey(s.d.objects, image_id)
    THEN s
    ELSE update_datastore_file(
            [s EXCEPT !.d.objects[KeyPos(s.d.objects, image_id)].image.info =
                          info @@ @])

\* LocalDatastore.update_image_info
update_image_info(s, image_id, info) ==
    IF ~HasKey(s.d.objects, image_id)
    THEN [s EXCEPT !.res = "ImageNotFoundException"]
    ELSE update_datastore_file(
            [s EXCEPT !.d.objects[KeyPos(s.d.objects, image_id)].image.info =
                          Update(@, info)])

\* The group and tag of the Entry LocalDatastoreModel.label returns: the first
\* object filter_by_id lets through, and the first of its labels with the id
update_label_info(s, label_id, info) ==
    LET r == LocalDatastoreModel_label(s.d.objects, label_id)
        objs == filter_by_id(s.d.objects, label_id)
        i == KeyPos(s.d.objects, Head(objs).key)
        j == TagPos(s.d.objects[i], r.tag)
    IN  IF ~r.found
        THEN [s EXCEPT !.res = "LabelNotFoundException"]
        ELSE update_datastore_file(
                [s EXCEPT !.d.objects[i].labels[j].label.info = Update(@, info)])

\* LocalDatastore.__init__ on the datastore directory as it is.  With
\* throw_exception=True the ValueError of a file that does not parse ends the
\* constructor: no instance is made, and what there was stays as it is.
construct(s) ==
    LET s0 == [s EXCEPT !.d = [NewDatastore EXCEPT !.base_path = ""], !.ts = 0]
        s1 == init_from_datastore_file(s0)
        d2 == [s1.d EXCEPT !.base_path = "ds"]
        f2 == MakeDirs(MakeDirs(s1.fs, d2, FINAL), d2, ORIGINAL)
    IN  IF s0.cfg.exists /\ s0.ts # s0.cfg.mtime /\ ~s0.cfg.valid
        THEN {[s EXCEPT !.res = "ValueError"]}
        ELSE reconcile_datastore([s1 EXCEPT !.d = d2, !.fs = f2])

----------------------------------------------------------------------------
(* The threads of instance 1.  Request handlers run on the caller threads,  *)
(* the handlers of the file system events on the one thread of the         *)
(* observer.                                                               *)

Me == 1
Callers == {"t1", "t2"}
Watcher == "w"
Threads == Callers \cup {Watcher}

\* A file system event the observer matched: its type, what its src_path is
\* ("config": the index file, "image": a file of the image root, "label": a
\* file of a tag directory) and whether a handler of this instance caused it
NoEvent == [type |-> "none", src |-> "none", own |-> FALSE]

Event(type, src, own) == [type |-> type, src |-> src, own |-> own]

\* The arguments and locals of a handler: obj is "held" while save_label holds
\* the group it looked up and "detached" once that group left the Index; lock
\* is the lock argument of _update_datastore_file; objects and n are
\* the objects and invalidate of the reconciler; before is what the Index
\* held when refresh() was called
NoFrame ==
    [op |-> "none", id |-> <<>>, tag |-> "", ext |-> <<>>, kind |-> "file",
     label_id |-> <<>>, obj |-> "none", lock |-> FALSE, objects |-> <<>>, n |-> 0,
     ev |-> NoEvent, before |-> <<>>]

\* What a step of a thread did: res is the exception that ended the handler,
\* ids the image id update_image_info or save_label was called with, or what
\* list_images returned
Step(t, step, ev, res, ids) ==
    [t |-> t, step |-> step, ev |-> ev, res |-> res, ids |-> ids]

NoStep == Step("none", "none", NoEvent, "ok", <<>>)

\* The instance after __init__: no handler runs, nothing is to be ignored
\* (self._ignore_event_count = 0, self._ignore_event_config = False)
Quiet(auto) ==
    /\ auto_reload = auto
    /\ holders = {}
    /\ pc = [t \in Threads |-> "idle"]
    /\ frame = [t \in Threads |-> NoFrame]
    /\ ignore_event_config = FALSE
    /\ ignore_event_count = 0
    /\ events = <<>>
    /\ did = NoStep

----------------------------------------------------------------------------
(* The state machine: every action is one whole call of one instance *)

Here(p) == St(fs, cfg, ds[p], config_ts[p])

Called(op, p, id, tag, info, ret, r) ==
    [op |-> op, p |-> p, id |-> id, tag |-> tag, info |-> info, ret |-> ret,
     res |-> r.res, n |-> r.n, locked |-> r.locked]

Commit(p, r, l) ==
    /\ fs' = r.fs
    /\ cfg' = r.cfg
    /\ ds' = [ds EXCEPT ![p] = r.d]
    /\ config_ts' = [config_ts EXCEPT ![p] = r.ts]
    /\ last' = l
    /\ nops' = nops + 1
    /\ UNCHANGED <<now, cwd, names, threads>>

SourceNames == {id \o ext : id \in names, ext \in SourceExts}

\* What __init__ makes in the datastore directory, and the image files some
\* of the directories it is started on hold already
EmptyDir ==
    [q \in {Path("ds", "labels", "", <<>>), Path("ds", "labels", FINAL, <<>>),
            Path("ds", "labels", ORIGINAL, <<>>)} |-> "dir"]

InitialDirs ==
    {[q \in {Path("ds", ".", "", name) : name \in S} |-> k[q.name]] @@ EmptyDir :
        <<S, k>> \in {<<S, k>> \in (SUBSET SourceNames) \X [SourceNames -> Kinds] :
                        \A name \in SourceNames \ S : k[name] = "file"}}

NoCall == [op |-> "none", p |-> 0, id |-> <<>>, tag |-> "", info |-> EmptyInfo,
           ret |-> <<>>, res |-> "ok", n |-> 0, locked |-> FALSE]

\* The state after instance 1, then instance 2, were constructed on the
\* directory
InitIn(dirs) ==
    /\ now = 1
    /\ cwd \in dirs
    /\ names \in ImageIdSets
    /\ nops = 0
    /\ last = NoCall
    /\ \E f \in InitialDirs :
       \E r1 \in construct(St(f, [exists |-> FALSE, doc |-> NoDoc, valid |-> TRUE,
                                 mtime |-> 0],
                              NewDatastore, 0)) :
       \E r2 \in construct([r1 EXCEPT !.res = "ok", !.n = 0]) :
          /\ r1.res = "ok" /\ r2.res = "ok"
          /\ fs = r2.fs
          /\ cfg = r2.cfg
          /\ ds = [p \in Procs |-> IF p = 1 THEN r1.d ELSE r2.d]
          /\ config_ts = [p \in Procs |-> IF p = 1 THEN r1.ts ELSE r2.ts]

\* No watcher (auto_reload=False), every call on one thread
Init == InitIn({"cwd"}) /\ Quiet(FALSE) /\ thread_local = TRUE

InitShared == InitIn({"ds", "cwd"}) /\ Quiet(FALSE) /\ thread_local = TRUE

AddImage(p) ==
    \E image_filename \in SourceNames, kind \in Kinds :
       \E image_id \in {<<>>, Replace(image_filename, Suffixes(image_filename))} :
       \E r \in add_image(Here(p), image_id, image_filename, kind) :
          Commit(p, r, Called("add_image", p, ImageIdOf(image_id, image_filename), "",
                              EmptyInfo, ImageIdOf(image_id, image_filename), r))

\* add_image with any id and a source of any of the extensions callers have;
\* the call is recorded with the arguments it was given
ImageSources == {id \o ext : id \in names, ext \in ImageExts}

AddAnyImage(p) ==
    \E image_filename \in ImageSources, kind \in Kinds, image_id \in {<<>>} \cup names :
       \E r \in add_image(Here(p), image_id, image_filename, kind) :
          Commit(p, r, [Called("add_image", p, image_id, "", EmptyInfo,
                               ImageIdOf(image_id, image_filename), r)
                           EXCEPT !.info = ("image_filename" :> image_filename)])

RemoveImage(p) ==
    /\ \E image_id \in names :
       \E r \in remove_image(Here(p), image_id) :
          Commit(p, r, Called("remove_image", p, image_id, "", EmptyInfo, <<>>, r))

SaveLabel(p) ==
    /\ \E image_id \in names, label_ext \in SourceExts, kind \in Kinds,
          label_tag \in Tags, label_info \in LabelInfoArgs, label_id \in LabelIdArgs :
          LET r == save_label(Here(p), image_id, label_ext, kind, label_tag,
                              label_info, label_id)
          IN  Commit(p, r, Called("save_label", p, image_id, label_tag, label_info,
                                  LabelIdOf(image_id, label_id), r))

LabelIds == {LabelIdOf(image_id, label_id) : image_id \in names, label_id \in LabelIdArgs}

RemoveLabel(p) ==
    /\ \E label_id \in LabelIds :
       \E r \in remove_label(Here(p), label_id) :
          Commit(p, r, Called("remove_label", p, label_id, "", EmptyInfo, <<>>, r))

RemoveLabelByTag(p) ==
    /\ \E label_tag \in Tags :
       \E r \in remove_label_by_tag(Here(p), label_tag) :
          Commit(p, r, Called("remove_label_by_tag", p, <<>>, label_tag, EmptyInfo, <<>>, r))

UpdateImageInfo(p) ==
    /\ \E image_id \in names, info \in InfoArgs :
          LET r == update_image_info(Here(p), image_id, info)
          IN  Commit(p, r, Called("update_image_info", p, image_id, "", info, <<>>, r))

UpdateLabelInfo(p) ==
    /\ \E label_id \in LabelIds, info \in InfoArgs :
          LET r == update_label_info(Here(p), label_id, info)
          IN  Commit(p, r, Called("update_label_info", p, label_id, "", info, <<>>, r))

Refresh(p) ==
    /\ \E r \in refresh(Here(p)) :
          Commit(p, r, Called("refresh", p, <<>>, "", EmptyInfo, <<>>, r))

\* The server restarts: a new LocalDatastore on the same directory
Restart(p) ==
    /\ \E r \in construct(Here(p)) :
          Commit(p, r, Called("init", p, <<>>, "", EmptyInfo, <<>>, r))

\* Another program puts a label file into a tag directory of the datastore
ExternalLabel ==
    /\ \E tag \in Tags, id \in LabelIds, ext \in SourceExts :
          /\ ~Exists(fs, Path("ds", "labels", tag, id \o ext))
          /\ fs' = (Path("ds", "labels", tag, id \o ext) :> "file") @@ fs
          /\ last' = [op |-> "external", p |-> 0, id |-> id, tag |-> tag,
                      info |-> EmptyInfo, ret |-> <<>>, res |-> "ok", n |-> 0,
                      locked |-> FALSE]
    /\ nops' = nops + 1
    /\ UNCHANGED <<cfg, now, cwd, ds, config_ts, names, threads>>

\* Another program writes the index file at a later time: the same document
\* again, the document of an empty Index, or text that is not a document
ExternalEdit ==
    /\ now < MaxTime
    /\ now' = now + 1
    /\ \E e \in {[doc |-> cfg.doc, valid |-> TRUE], [doc |-> NoDoc, valid |-> TRUE],
                 [doc |-> cfg.doc, valid |-> FALSE]} :
          cfg' = [exists |-> TRUE, doc |-> e.doc, valid |-> e.valid, mtime |-> now']
    /\ last' = [NoCall EXCEPT !.op = "external_edit"]
    /\ nops' = nops + 1
    /\ UNCHANGED <<fs, cwd, ds, config_ts, names, threads>>

\* LocalDatastore._on_modify_event for the event of such a write (the path
\* is the index file and _ignore_event_config is not set)
OnModifyEvent(p) ==
    /\ last.op = "external_edit"
    /\ LET r == init_from_datastore_file(Here(p))
       IN  Commit(p, r, Called("on_modify_event", p, <<>>, "", EmptyInfo, <<>>, r))

Tick ==
    /\ now < MaxTime
    /\ now' = now + 1
    /\ UNCHANGED <<fs, cfg, cwd, ds, config_ts, names, nops, last, threads>>

\* One instance serving every call, the calls following each other within
\* one tick of the clock
Next ==
    \/ nops < MaxOps /\ AddImage(1)
    \/ nops < MaxOps /\ RemoveImage(1)
    \/ nops < MaxOps /\ SaveLabel(1)
    \/ nops < MaxOps /\ RemoveLabel(1)
    \/ nops < MaxOps /\ RemoveLabelByTag(1)
    \/ nops < MaxOps /\ UpdateImageInfo(1)
    \/ nops < MaxOps /\ UpdateLabelInfo(1)
    \/ nops < MaxOps /\ Refresh(1)
    \/ nops < MaxOps /\ Restart(1)
    \/ nops < MaxOps /\ ExternalLabel

Spec == Init /\ [][Next]_vars

\* Two instances (processes) on one directory, each call holding the lock
\* from its start to its end
NextShared ==
    \/ nops < MaxSharedOps /\ \E p \in Procs : SaveLabel(p)
    \/ nops < MaxSharedOps /\ \E p \in Procs : UpdateImageInfo(p)
    \/ nops < MaxSharedOps /\ \E p \in Procs : Refresh(p)
    \/ Tick

SpecShared == InitShared /\ [][NextShared]_vars

\* One instance saving labels and reconciling
NextReconcile ==
    \/ nops < MaxReconcileOps /\ SaveLabel(1)
    \/ nops < MaxReconcileOps /\ Refresh(1)

SpecReconcile == Init /\ [][NextReconcile]_vars

\* One instance adding images of any extension and saving labels
NextImages ==
    \/ nops < MaxImageOps /\ AddAnyImage(1)
    \/ nops < MaxImageOps /\ SaveLabel(1)
    \/ nops < MaxImageOps /\ Refresh(1)

SpecImages == Init /\ [][NextImages]_vars

\* One instance whose index file another program writes too
NextReload ==
    \/ nops < MaxReloadOps /\ SaveLabel(1)
    \/ nops < MaxReloadOps /\ Refresh(1)
    \/ nops < MaxReloadOps /\ Restart(1)
    \/ nops < MaxReloadOps /\ ExternalEdit
    \/ nops < MaxReloadOps /\ OnModifyEvent(1)

SpecReload == Init /\ [][NextReload]_vars

----------------------------------------------------------------------------
(* The handlers of instance 1 step by step.  A step is what one thread     *)
(* does without another thread running in between; a thread waits only for *)
(* self._lock.                                                             *)

MaxThreadOps == 2
MaxWatchOps == 2

\* FileLock.acquire from thread t.  The lock file shuts other processes out.
\* Between the threads of the process that share the one FileLock object it
\* depends on the filelock of the build: with a state per thread a second
\* thread waits, with one state for all threads its acquire only counts up
\* and returns.
CanAcquire(t) == holders = {} \/ (~thread_local /\ t \notin holders)

\* A change made through a reference to the group under key: it shows in the
\* dictionary if the group is in it
InPlace(objects, key, change) ==
    IF HasKey(objects, key)
    THEN [objects EXCEPT ![KeyPos(objects, key)] = change[@]]
    ELSE objects

\* self._datastore.objects.update(objects)
RECURSIVE UpdateObjects(_, _)
UpdateObjects(objects, new) ==
    IF new = <<>> THEN objects
    ELSE UpdateObjects(SetObj(objects, Head(new).key, Head(new)), Tail(new))

\* The event a copy to dest makes the observer dispatch: on_created for a new
\* file the patterns match below the datastore directory
Created(f, dest, src) ==
    IF auto_reload /\ ~Exists(f, dest) /\ dest.root = "ds" /\ Matches(dest.name)
    THEN <<Event("created", src, TRUE)>>
    ELSE <<>>

\* on_modified for a write of the index file
Modified(own) == IF auto_reload THEN <<Event("modified", "config", own)>> ELSE <<>>

\* The step of thread t that ends its handler
Returns(t, step, res) ==
    /\ pc' = [pc EXCEPT ![t] = "idle"]
    /\ did' = Step(t, step, frame[t].ev, res, <<>>)

\* update_image_info up to the call of _update_datastore_file: the info is
\* changed in memory before the lock is asked for
CallUpdateImageInfo(t) ==
    /\ pc[t] = "idle"
    /\ nops' = nops + 1
    /\ \E image_id \in names, info \in LabelInfoArgs :
          LET upd(obj) == [obj EXCEPT !.image.info = Update(@, info)] IN
          IF ~HasKey(ds[Me].objects, image_id)
          THEN /\ did' = Step(t, "update_image_info", NoEvent,
                              "ImageNotFoundException", <<image_id>>)
               /\ UNCHANGED <<ds, pc, frame>>
          ELSE /\ ds' = [ds EXCEPT ![Me].objects = InPlace(@, image_id, [obj \in Range(@) |-> upd(obj)])]
               /\ frame' = [u \in Threads |->
                              IF u = t
                              THEN [NoFrame EXCEPT !.op = "update_image_info",
                                                   !.id = image_id, !.lock = TRUE]
                              ELSE [frame[u] EXCEPT !.objects = InPlace(@, image_id, [obj \in Range(@) |-> upd(obj)])]]
               /\ pc' = [pc EXCEPT ![t] = "acquire"]
               /\ did' = Step(t, "update_image_info", NoEvent, "ok", <<image_id>>)
    /\ UNCHANGED <<fs, cfg, now, cwd, config_ts, names, last, auto_reload,
                   thread_local, holders, ignore_event_config,
                   ignore_event_count, events>>

\* add_image: the copy, and refresh() when no watcher runs
CallAddImage(t) ==
    /\ pc[t] = "idle"
    /\ nops' = nops + 1
    /\ \E image_filename \in ImageSources, kind \in {"file"} :
          LET image_ext == Suffixes(image_filename)
              image_id == ImageIdOf(<<>>, image_filename)
              dest == ImageFile(ds[Me], image_id \o image_ext)
          IN  IF CopyResult(fs, kind, dest) # "ok"
              THEN /\ did' = Step(t, "add_image", NoEvent, CopyResult(fs, kind, dest), <<>>)
                   /\ UNCHANGED <<fs, pc, frame, events>>
              ELSE /\ fs' = Copy(fs, kind, dest)
                   /\ events' = events \o Created(fs, dest, "image")
                   /\ frame' = [frame EXCEPT ![t] =
                                  [NoFrame EXCEPT !.op = "add_image", !.id = image_id,
                                                  !.ext = image_ext, !.kind = kind]]
                   /\ pc' = [pc EXCEPT ![t] = IF auto_reload THEN "idle" ELSE "refresh"]
                   /\ did' = Step(t, "copy", NoEvent, "ok", <<>>)
    /\ UNCHANGED <<cfg, now, cwd, ds, config_ts, names, last, auto_reload,
                   thread_local, holders, ignore_event_config, ignore_event_count>>

\* save_label up to "with self._lock": the group is looked up, the id and the
\* destination are worked out
CallSaveLabel(t) ==
    /\ pc[t] = "idle"
    /\ nops' = nops + 1
    /\ \E image_id \in names, label_ext \in SourceExts, kind \in {"file"},
          label_tag \in {FINAL}, label_id \in {<<>>} :
          IF ~HasKey(ds[Me].objects, image_id)
          THEN /\ did' = Step(t, "save_label", NoEvent, "ImageNotFoundException",
                              <<image_id>>)
               /\ UNCHANGED <<pc, frame>>
          ELSE /\ frame' = [frame EXCEPT ![t] =
                              [NoFrame EXCEPT !.op = "save_label", !.id = image_id,
                                              !.tag = label_tag, !.ext = label_ext,
                                              !.kind = kind, !.obj = "held",
                                              !.label_id = LabelIdOf(image_id, label_id)]]
               /\ pc' = [pc EXCEPT ![t] = "with_lock"]
               /\ did' = Step(t, "save_label", NoEvent, "ok", <<image_id>>)
    /\ UNCHANGED <<fs, cfg, now, cwd, ds, config_ts, names, last, auto_reload,
                   thread_local, holders, ignore_event_config,
                   ignore_event_count, events>>

\* with self._lock: of save_label
EnterWith(t) ==
    /\ pc[t] = "with_lock"
    /\ CanAcquire(t)
    /\ holders' = holders \cup {t}
    /\ pc' = [pc EXCEPT ![t] = "copy"]
    /\ did' = Step(t, "acquire", NoEvent, "ok", <<>>)
    /\ UNCHANGED <<fs, cfg, now, cwd, ds, config_ts, names, nops, last, auto_reload,
                   thread_local, frame, ignore_event_config, ignore_event_count,
                   events>>

\* save_label inside the lock: makedirs, the copy, obj.labels[label_tag] = ...
\* An exception of the copy leaves the with block, which releases the lock.
SaveCopy(t) ==
    /\ pc[t] = "copy"
    /\ LET fr == frame[t]
           dest == LabelFile(ds[Me], fr.tag, fr.label_id \o fr.ext)
           f1 == MakeDirs(fs, ds[Me], fr.tag)
           put(obj) == SetLabel(obj, fr.tag, DataModel(fr.label_id, fr.ext, "ts" :> now))
       IN  IF CopyResult(f1, fr.kind, dest) # "ok"
           THEN /\ fs' = f1
                /\ holders' = holders \ {t}
                /\ frame' = [frame EXCEPT ![t] = NoFrame]
                /\ Returns(t, "save_label", CopyResult(f1, fr.kind, dest))
                /\ UNCHANGED <<ds, events>>
           ELSE /\ fs' = Copy(f1, fr.kind, dest)
                /\ events' = events \o Created(f1, dest, "label")
                /\ ds' = IF fr.obj = "held"
                         THEN [ds EXCEPT ![Me].objects = InPlace(@, fr.id, [obj \in Range(@) |-> put(obj)])]
                         ELSE ds
                /\ frame' = [u \in Threads |->
                               IF u # t /\ fr.obj = "held"
                               THEN [frame[u] EXCEPT !.objects = InPlace(@, fr.id, [obj \in Range(@) |-> put(obj)])]
                               ELSE frame[u]]
                /\ pc' = [pc EXCEPT ![t] = "open"]
                /\ did' = Step(t, "copy", NoEvent, "ok", <<>>)
                /\ UNCHANGED holders
    /\ UNCHANGED <<cfg, now, cwd, config_ts, names, nops, last, auto_reload,
                   thread_local, ignore_event_config, ignore_event_count>>

\* _update_datastore_file(lock=True): self._lock.acquire()
Acquire(t) ==
    /\ pc[t] = "acquire"
    /\ CanAcquire(t)
    /\ holders' = holders \cup {t}
    /\ pc' = [pc EXCEPT ![t] = "open"]
    /\ did' = Step(t, "acquire", frame[t].ev, "ok", <<>>)
    /\ UNCHANGED <<fs, cfg, now, cwd, ds, config_ts, names, nops, last, auto_reload,
                   thread_local, frame, ignore_event_config, ignore_event_count,
                   events>>

\* _update_datastore_file: self._ignore_event_config = True, and
\* open(self._datastore_config_path, "w"), which leaves the file empty
Open(t) ==
    /\ pc[t] = "open"
    /\ ignore_event_config' = TRUE
    /\ cfg' = [exists |-> TRUE, doc |-> NoDoc, valid |-> FALSE, mtime |-> now]
    /\ pc' = [pc EXCEPT ![t] = "write"]
    /\ did' = Step(t, "open", frame[t].ev, "ok", <<>>)
    /\ UNCHANGED <<fs, now, cwd, ds, config_ts, names, nops, last, auto_reload,
                   thread_local, holders, frame, ignore_event_count, events>>

\* _update_datastore_file: f.write(json.dumps(self._datastore.dict(...)))
Write(t) ==
    /\ pc[t] = "write"
    /\ cfg' = [exists |-> TRUE, doc |-> Dump(ds[Me]), valid |-> TRUE, mtime |-> now]
    /\ events' = events \o Modified(TRUE)
    /\ pc' = [pc EXCEPT ![t] = "stat"]
    /\ did' = Step(t, "write", frame[t].ev, "ok", <<>>)
    /\ UNCHANGED <<fs, now, cwd, ds, config_ts, names, nops, last, auto_reload,
                   thread_local, holders, frame, ignore_event_config,
                   ignore_event_count>>

\* _update_datastore_file: the write raises (OSError: no space left, an
\* input/output error).  With lock=True nothing releases the lock on the way
\* out; inside save_label the with block does.
WriteFails(t) ==
    /\ pc[t] = "write"
    /\ events' = events \o Modified(TRUE)
    /\ holders' = IF frame[t].lock THEN holders ELSE holders \ {t}
    /\ frame' = [frame EXCEPT ![t] = NoFrame]
    /\ Returns(t, frame[t].op, "OSError")
    /\ UNCHANGED <<fs, cfg, now, cwd, ds, config_ts, names, nops, last, auto_reload,
                   thread_local, ignore_event_config, ignore_event_count>>

\* _update_datastore_file: self._config_ts = os.stat(...).st_mtime
Stat(t) ==
    /\ pc[t] = "stat"
    /\ config_ts' = [config_ts EXCEPT ![Me] = cfg.mtime]
    /\ pc' = [pc EXCEPT ![t] = "release"]
    /\ did' = Step(t, "stat", frame[t].ev, "ok", <<>>)
    /\ UNCHANGED <<fs, cfg, now, cwd, ds, names, nops, last, auto_reload,
                   thread_local, holders, frame, ignore_event_config,
                   ignore_event_count, events>>

\* self._lock.release(), or the end of the with block of save_label; the
\* handler returns
Release(t) ==
    /\ pc[t] = "release"
    /\ holders' = holders \ {t}
    /\ frame' = [frame EXCEPT ![t] = NoFrame]
    /\ Returns(t, frame[t].op, "ok")
    /\ UNCHANGED <<fs, cfg, now, cwd, ds, config_ts, names, nops, last, auto_reload,
                   thread_local, ignore_event_config, ignore_event_count, events>>

\* refresh() called by a request
CallRefresh(t) ==
    /\ pc[t] = "idle"
    /\ nops' = nops + 1
    /\ frame' = [frame EXCEPT ![t] = [NoFrame EXCEPT !.op = "refresh",
                                                     !.before = ds[Me].objects]]
    /\ pc' = [pc EXCEPT ![t] = "refresh"]
    /\ did' = Step(t, "refresh", NoEvent, "ok", <<>>)
    /\ UNCHANGED <<fs, cfg, now, cwd, ds, config_ts, names, last, auto_reload,
                   thread_local, holders, ignore_event_config, ignore_event_count,
                   events>>

\* _init_from_datastore_file(), the first statement of refresh and the whole
\* of _on_modify_event for an event that is not ignored.  A reload puts a new
\* LocalDatastoreModel in place: the groups handlers hold are no longer its.
InitFromFile(t) ==
    /\ pc[t] \in {"refresh", "reload"}
    /\ CanAcquire(t)
    /\ LET r == init_from_datastore_file(Here(Me))
           reloaded == cfg.exists /\ config_ts[Me] # cfg.mtime /\ cfg.valid
       IN  /\ ds' = [ds EXCEPT ![Me] = r.d]
           /\ config_ts' = [config_ts EXCEPT ![Me] = r.ts]
           /\ did' = Step(t, IF reloaded THEN "reloaded" ELSE "not_reloaded",
                          frame[t].ev, "ok", <<>>)
           /\ frame' = [u \in Threads |->
                          IF pc[t] = "reload" /\ u = t THEN NoFrame
                          ELSE IF reloaded /\ frame[u].obj = "held"
                          THEN [frame[u] EXCEPT !.obj = "detached"]
                          ELSE frame[u]]
    /\ pc' = [pc EXCEPT ![t] = IF pc[t] = "refresh" THEN "clear1" ELSE "idle"]
    /\ UNCHANGED <<fs, cfg, now, cwd, names, nops, last, auto_reload, thread_local,
                   holders, ignore_event_config, ignore_event_count, events>>

\* _remove_non_existing up to self._datastore.objects.clear(): the groups
\* and labels whose files exist are collected in the local objects, and the
\* dictionary of the Index is emptied
RemoveClear(t) ==
    /\ pc[t] \in {"clear1", "clear2"}
    /\ LET r == remove_non_existing(fs, ds[Me])
       IN  /\ frame' = [frame EXCEPT ![t].objects = r.objects, ![t].n = @ + r.n]
           /\ ds' = [ds EXCEPT ![Me].objects = <<>>]
    /\ pc' = [pc EXCEPT ![t] = IF pc[t] = "clear1" THEN "update1" ELSE "update2"]
    /\ did' = Step(t, "clear", frame[t].ev, "ok", <<>>)
    /\ UNCHANGED <<fs, cfg, now, cwd, config_ts, names, nops, last, auto_reload,
                   thread_local, holders, ignore_event_config, ignore_event_count,
                   events>>

\* _remove_non_existing: self._datastore.objects.update(objects)
RemoveUpdate(t) ==
    /\ pc[t] \in {"update1", "update2"}
    /\ LET objects == UpdateObjects(ds[Me].objects, frame[t].objects)
       IN  /\ ds' = [ds EXCEPT ![Me].objects = objects]
           /\ frame' = [u \in Threads |->
                          IF u = t THEN [frame[u] EXCEPT !.objects = <<>>]
                          ELSE IF frame[u].obj = "held" /\ ~HasKey(objects, frame[u].id)
                          THEN [frame[u] EXCEPT !.obj = "detached"]
                          ELSE frame[u]]
    /\ pc' = [pc EXCEPT ![t] = IF pc[t] = "update1" THEN "add" ELSE "flush"]
    /\ did' = Step(t, "update", frame[t].ev, "ok", <<>>)
    /\ UNCHANGED <<fs, cfg, now, cwd, config_ts, names, nops, last, auto_reload,
                   thread_local, holders, ignore_event_config, ignore_event_count,
                   events>>

\* _reconcile_datastore between the two _remove_non_existing:
\* _add_non_existing_images, os.listdir(labels_dir) and
\* _add_non_existing_labels for every tag directory
AddNonExisting(t) ==
    /\ pc[t] = "add"
    /\ \E r2 \in add_non_existing_images(fs, ds[Me]) :
          LET d2 == [ds[Me] EXCEPT !.objects = r2.objects] IN
          IF ~Exists(fs, label_path(d2, ""))
          THEN /\ ds' = [ds EXCEPT ![Me] = d2]
               /\ frame' = [frame EXCEPT ![t] = NoFrame]
               /\ Returns(t, frame[t].op, "FileNotFoundError")
          ELSE \E r3 \in AddLabelsOfTags(ListTags(fs, d2), fs, d2, 0) :
                  /\ ds' = [ds EXCEPT ![Me].objects = r3.objects]
                  /\ frame' = [frame EXCEPT ![t].n = @ + r2.n + r3.n]
                  /\ pc' = [pc EXCEPT ![t] = "clear2"]
                  /\ did' = Step(t, "add", frame[t].ev, "ok", <<>>)
    /\ UNCHANGED <<fs, cfg, now, cwd, config_ts, names, nops, last, auto_reload,
                   thread_local, holders, ignore_event_config, ignore_event_count,
                   events>>

\* _reconcile_datastore: if invalidate: self._update_datastore_file()
Flush(t) ==
    /\ pc[t] = "flush"
    /\ IF frame[t].n # 0
       THEN /\ frame' = [frame EXCEPT ![t].lock = TRUE]
            /\ pc' = [pc EXCEPT ![t] = "acquire"]
            /\ did' = Step(t, "flush", frame[t].ev, "ok", <<>>)
       ELSE /\ frame' = [frame EXCEPT ![t] = NoFrame]
            /\ Returns(t, frame[t].op, "ok")
    /\ UNCHANGED <<fs, cfg, now, cwd, ds, config_ts, names, nops, last, auto_reload,
                   thread_local, holders, ignore_event_config, ignore_event_count,
                   events>>

\* list_images() called by a request
ListImages(t) ==
    /\ pc[t] = "idle"
    /\ did' = Step(t, "list_images", NoEvent, "ok", list_images(ds[Me]))
    /\ UNCHANGED <<fs, cfg, now, cwd, ds, config_ts, names, nops, last, auto_reload,
                   thread_local, holders, pc, frame, ignore_event_config,
                   ignore_event_count, events>>

\* The observer dispatches the next event: _on_modify_event for on_modified,
\* _on_any_event for on_created and on_deleted, up to the call of
\* _init_from_datastore_file or of refresh
Dispatch ==
    /\ pc[Watcher] = "idle"
    /\ events # <<>>
    /\ events' = Tail(events)
    /\ LET e == Head(events) IN
       IF e.type = "modified"
       THEN /\ ignore_event_config' = FALSE
            /\ pc' = [pc EXCEPT ![Watcher] =
                        IF ignore_event_config THEN "idle" ELSE "reload"]
            /\ frame' = [frame EXCEPT ![Watcher] =
                           IF ignore_event_config THEN NoFrame
                           ELSE [NoFrame EXCEPT !.op = "on_modify_event", !.ev = e]]
            /\ did' = Step(Watcher, IF ignore_event_config THEN "ignored" ELSE "handled",
                           e, "ok", <<>>)
            /\ UNCHANGED ignore_event_count
       ELSE /\ ignore_event_count' = IF ignore_event_count > 0
                                     THEN ignore_event_count - 1 ELSE 0
            /\ pc' = [pc EXCEPT ![Watcher] =
                        IF ignore_event_count > 0 THEN "idle" ELSE "refresh"]
            /\ frame' = [frame EXCEPT ![Watcher] =
                           IF ignore_event_count > 0 THEN NoFrame
                           ELSE [NoFrame EXCEPT !.op = "on_any_event", !.ev = e]]
            /\ did' = Step(Watcher, IF ignore_event_count > 0 THEN "ignored" ELSE "handled",
                           e, "ok", <<>>)
            /\ UNCHANGED ignore_event_config
    /\ UNCHANGED <<fs, cfg, now, cwd, ds, config_ts, names, nops, last, auto_reload,
                   thread_local, holders>>

\* Another program writes the index file at a later time, the observer
\* watching
ExternalWrite ==
    /\ now < MaxTime
    /\ now' = now + 1
    /\ \E doc \in {cfg.doc, NoDoc} :
          cfg' = [exists |-> TRUE, doc |-> doc, valid |-> TRUE, mtime |-> now']
    /\ events' = events \o Modified(FALSE)
    /\ did' = Step("none", "external_write", NoEvent, "ok", <<>>)
    /\ nops' = nops + 1
    /\ UNCHANGED <<fs, cwd, ds, config_ts, names, last, auto_reload, thread_local,
                   holders, pc, frame, ignore_event_config, ignore_event_count>>

\* Another program puts an image file into the image root or takes one away
ExternalImage ==
    /\ \E name \in SourceNames :
          LET p == Path("ds", ".", "", name) IN
          IF Exists(fs, p)
          THEN /\ fs' = Without(fs, p)
               /\ events' = IF auto_reload
                            THEN Append(events, Event("deleted", "image", FALSE))
                            ELSE events
          ELSE /\ fs' = (p :> "file") @@ fs
               /\ events' = IF auto_reload
                            THEN Append(events, Event("created", "image", FALSE))
                            ELSE events
    /\ did' = Step("none", "external_image", NoEvent, "ok", <<>>)
    /\ nops' = nops + 1
    /\ UNCHANGED <<cfg, now, cwd, ds, config_ts, names, last, auto_reload,
                   thread_local, holders, pc, frame, ignore_event_config,
                   ignore_event_count>>

\* The clock moves on between two steps
Later ==
    /\ now < MaxTime
    /\ now' = now + 1
    /\ did' = Step("none", "later", NoEvent, "ok", <<>>)
    /\ UNCHANGED <<fs, cfg, cwd, ds, config_ts, names, nops, last, auto_reload,
                   thread_local, holders, pc, frame, ignore_event_config,
                   ignore_event_count, events>>

\* Requests served by two threads of one instance, no watcher
\* (auto_reload=False)
InitThreads ==
    /\ InitIn({"cwd"})
    /\ names = {<<"a">>, <<"b">>}
    /\ \A q \in DOMAIN fs : q.name # <<>> => fs[q] = "file"
    /\ Quiet(FALSE)
    /\ thread_local \in BOOLEAN

NextThreads ==
    \/ nops < MaxThreadOps /\ \E t \in Callers : CallUpdateImageInfo(t)
    \/ nops < MaxThreadOps /\ \E t \in Callers : CallAddImage(t)
    \/ nops < MaxThreadOps /\ \E t \in Callers : CallSaveLabel(t)
    \/ nops < MaxThreadOps /\ \E t \in Callers : CallRefresh(t)
    \/ \E t \in Callers : ListImages(t)
    \/ \E t \in Callers : EnterWith(t)
    \/ \E t \in Callers : SaveCopy(t)
    \/ \E t \in Callers : Acquire(t)
    \/ \E t \in Callers : Open(t)
    \/ \E t \in Callers : Write(t)
    \/ \E t \in Callers : WriteFails(t)
    \/ \E t \in Callers : Stat(t)
    \/ \E t \in Callers : Release(t)
    \/ \E t \in Callers : InitFromFile(t)
    \/ \E t \in Callers : RemoveClear(t)
    \/ \E t \in Callers : RemoveUpdate(t)
    \/ \E t \in Callers : AddNonExisting(t)
    \/ \E t \in Callers : Flush(t)

SpecThreads == InitThreads /\ [][NextThreads]_vars

\* The watcher running (auto_reload=True) on a datastore that holds image a
InitWatch ==
    /\ InitIn({"cwd"})
    /\ names = {<<"a">>, <<"b">>}
    /\ \A q \in DOMAIN fs : q.name # <<>> => fs[q] = "file"
    /\ HasKey(ds[Me].objects, <<"a">>)
    /\ Quiet(TRUE)
    /\ thread_local \in BOOLEAN

\* Two request threads that write the index file and the observer thread,
\* which gets the events of their writes; nothing else touches the directory
NextOwnWrites ==
    \/ nops < MaxWatchOps /\ \E t \in Callers : CallUpdateImageInfo(t)
    \/ \E t \in Callers : Acquire(t)
    \/ \E t \in Callers : Open(t)
    \/ \E t \in Callers : Write(t)
    \/ \E t \in Callers : Stat(t)
    \/ \E t \in Callers : Release(t)
    \/ Dispatch
    \/ InitFromFile(Watcher)
    \/ Later

SpecOwnWrites == InitWatch /\ [][NextOwnWrites]_vars

\* One request thread, the observer thread and other programs that write
\* the index file and put and remove image files
NextWatch ==
    \/ nops < MaxWatchOps /\ CallUpdateImageInfo("t1")
    \/ nops < MaxWatchOps /\ CallAddImage("t1")
    \/ nops < MaxWatchOps /\ CallSaveLabel("t1")
    \/ nops < MaxWatchOps /\ ExternalWrite
    \/ nops < MaxWatchOps /\ ExternalImage
    \/ EnterWith("t1")
    \/ SaveCopy("t1")
    \/ Dispatch
    \/ \E t \in {"t1", Watcher} : Acquire(t)
    \/ \E t \in {"t1", Watcher} : Open(t)
    \/ \E t \in {"t1", Watcher} : Write(t)
    \/ \E t \in {"t1", Watcher} : Stat(t)
    \/ \E t \in {"t1", Watcher} : Release(t)
    \/ InitFromFile(Watcher)
    \/ RemoveClear(Watcher)
    \/ RemoveUpdate(Watcher)
    \/ AddNonExisting(Watcher)
    \/ Flush(Watcher)

SpecWatch == InitWatch /\ [][NextWatch]_vars

\* The watcher running: a request thread that adds images, other programs
\* that put and remove image files, and the observer thread, which gets to
\* handle every event
MaxEventualOps == 2

WatcherStep ==
    \/ Dispatch
    \/ InitFromFile(Watcher)
    \/ RemoveClear(Watcher)
    \/ RemoveUpdate(Watcher)
    \/ AddNonExisting(Watcher)
    \/ Flush(Watcher)
    \/ Acquire(Watcher)
    \/ Open(Watcher)
    \/ Write(Watcher)
    \/ Stat(Watcher)
    \/ Release(Watcher)

NextEventual ==
    \/ nops < MaxEventualOps /\ CallAddImage("t1")
    \/ nops < MaxEventualOps /\ ExternalImage
    \/ WatcherStep

SpecEventual == InitWatch /\ [][NextEventual]_vars /\ WF_vars(WatcherStep)

\* One instance reconciling label files other programs put next to the ones
\* it saved, the order os.listdir gave the files in kept with the call
MaxScanOps == 3

\* The orders os.listdir can give the files S in
RECURSIVE Listings(_)
Listings(S) ==
    IF S = {} THEN {<<>>}
    ELSE UNION {{<<file>> \o rest : rest \in Listings(S \ {file})} : file \in S}

\* The loop of _add_non_existing_labels over the listing local_labels:
\* a file whose id is in label_ids, or whose image has no group, is skipped
RECURSIVE AddLabelsInOrder(_, _, _, _, _)
AddLabelsInOrder(local_labels, objects, label_ids, tag, n) ==
    IF local_labels = <<>> THEN [objects |-> objects, n |-> n]
    ELSE LET label_file == Head(local_labels)
             label_ext == Suffixes(label_file)
             label_id == Replace(label_file, label_ext)
             image_id == SplitPlus0(label_id)
         IN  IF label_id \in label_ids \/ ~HasKey(objects, image_id)
             THEN AddLabelsInOrder(Tail(local_labels), objects, label_ids, tag, n)
             ELSE AddLabelsInOrder(Tail(local_labels),
                    [objects EXCEPT ![KeyPos(objects, image_id)] =
                        SetLabel(@, tag, DataModel(label_id, label_ext, EmptyInfo))],
                    label_ids, tag, n + 1)

\* The Index _add_non_existing_labels(tag) starts on in a refresh of s: the
\* file is loaded if it changed, the first _remove_non_existing and
\* _add_non_existing_images have run
BeforeLabels(s) ==
    LET s0 == init_from_datastore_file(s)
        d1 == [s0.d EXCEPT !.objects = remove_non_existing(s0.fs, s0.d).objects]
        r2 == CHOOSE r \in add_non_existing_images(s0.fs, d1) : TRUE
    IN  [d1 EXCEPT !.objects = r2.objects]

\* refresh() ended in r with the tag directories listed as scans gives them
ScannedAs(s, r, scans) ==
    LET d2 == BeforeLabels(s) IN
    \A tag \in DOMAIN scans :
       LET objs == filter_by_tag(d2.objects, tag)
           label_ids == {LabelOf(objs[i], tag).id : i \in 1..Len(objs)}
           o == AddLabelsInOrder(scans[tag], d2.objects, label_ids, tag, 0).objects
       IN  \A i \in 1..Len(o) :
              HasTag(o[i], tag)
              => /\ HasKey(r.d.objects, o[i].key)
                 /\ HasTag(ObjOf(r.d.objects, o[i].key), tag)
                 /\ LabelOf(ObjOf(r.d.objects, o[i].key), tag) = LabelOf(o[i], tag)

\* refresh(), the listing of every tag directory recorded with the call
RefreshScanning(p) ==
    /\ \E r \in refresh(Here(p)) :
       \E scans \in [Tags -> UNION {Listings(ListLabelFiles(fs, BeforeLabels(Here(p)), tag))
                                    : tag \in Tags}] :
          /\ r.res = "ok"
          /\ \A tag \in Tags :
                scans[tag] \in Listings(ListLabelFiles(fs, BeforeLabels(Here(p)), tag))
          /\ ScannedAs(Here(p), r, scans)
          /\ Commit(p, r, Called("refresh", p, <<>>, "", scans, <<>>, r))

NextScan ==
    \/ nops < MaxScanOps /\ SaveLabel(1)
    \/ nops < MaxScanOps /\ ExternalLabel
    \/ nops < MaxScanOps /\ RefreshScanning(1)

SpecScan == Init /\ [][NextScan]_vars

\* One instance saving labels and updating the info of its Entries
MaxInfoOps == 3

NextInfo ==
    \/ nops < MaxInfoOps /\ SaveLabel(1)
    \/ nops < MaxInfoOps /\ UpdateLabelInfo(1)
    \/ nops < MaxInfoOps /\ UpdateImageInfo(1)
    \/ nops < MaxInfoOps /\ Refresh(1)

SpecInfo == Init /\ [][NextInfo]_vars

\* One instance removing an image that has labels and adding it again
MaxReAddOps == 3

NextReAdd ==
    \/ nops < MaxReAddOps /\ SaveLabel(1)
    \/ nops < MaxReAddOps /\ RemoveImage(1)
    \/ nops < MaxReAddOps /\ AddImage(1)

SpecReAdd == Init /\ [][NextReAdd]_vars

\* One instance serving every call, set_name and set_description included
MaxQuietOps == 2
DatasetNames == {"liver"}
DatasetDescriptions == {"Liver CT"}

\* A set_name that changes the name in memory only: what C37 rules out.
set_name_InMemory(s, name) == [s EXCEPT !.d.name = name]

\* LocalDatastore.set_name
set_name(s, name) == update_datastore_file([s EXCEPT !.d.name = name])

\* LocalDatastore.set_description
set_description(s, description) ==
    update_datastore_file([s EXCEPT !.d.description = description])

SetName(p) ==
    \E name \in DatasetNames :
       LET r == set_name(Here(p), name)
       IN  Commit(p, r, Called("set_name", p, <<>>, "", "name" :> name, <<>>, r))

SetDescription(p) ==
    \E description \in DatasetDescriptions :
       LET r == set_description(Here(p), description)
       IN  Commit(p, r, Called("set_description", p, <<>>, "",
                               "description" :> description, <<>>, r))

NextQuiet ==
    \/ nops < MaxQuietOps /\ AddImage(1)
    \/ nops < MaxQuietOps /\ RemoveImage(1)
    \/ nops < MaxQuietOps /\ SaveLabel(1)
    \/ nops < MaxQuietOps /\ RemoveLabel(1)
    \/ nops < MaxQuietOps /\ UpdateImageInfo(1)
    \/ nops < MaxQuietOps /\ UpdateLabelInfo(1)
    \/ nops < MaxQuietOps /\ SetName(1)
    \/ nops < MaxQuietOps /\ SetDescription(1)
    \/ nops < MaxQuietOps /\ Refresh(1)

SpecQuiet == Init /\ [][NextQuiet]_vars

\* One instance saving labels, the index file deleted and the Index built
\* again from the files on disk by a new instance
MaxRebuildOps == 3

\* The index file is deleted by the operator
DeleteIndexFile ==
    /\ cfg.exists
    /\ cfg' = [exists |-> FALSE, doc |-> NoDoc, valid |-> TRUE, mtime |-> 0]
    /\ last' = [NoCall EXCEPT !.op = "delete_index_file"]
    /\ nops' = nops + 1
    /\ UNCHANGED <<fs, now, cwd, ds, config_ts, names, threads>>

NextRebuild ==
    \/ nops < MaxRebuildOps /\ SaveLabel(1)
    \/ nops < MaxRebuildOps /\ DeleteIndexFile
    \/ nops < MaxRebuildOps /\ Restart(1)

SpecRebuild == Init /\ [][NextRebuild]_vars

----------------------------------------------------------------------------
(* Claims *)

\* The label ids the queries find in an Index
OwnedLabelIds(d, image_id) ==
    {get_labels_by_image_id(d, image_id)[i].id :
        i \in 1..Len(get_labels_by_image_id(d, image_id))}

FoundByLabelQuery(d, label_id) ==
    \/ \E i \in 1..Len(d.objects) : label_id \in OwnedLabelIds(d, d.objects[i].key)
    \/ get_label_info(d, label_id) # EmptyInfo
    \/ get_label_uri(d, label_id) # NoPath

\* The step is a call of op by instance p that returned without an exception
Returned(op, p) ==
    /\ nops' = nops + 1
    /\ last'.op = op /\ last'.p = p /\ last'.res = "ok"

\* C1: after remove_image(id) of an image of the Index has returned,
\* list_images() does not hold id and no label id the image owned is found by
\* get_labels_by_image_id, get_label_info or get_label_uri.
C1_RemoveImageCascades ==
    [][\A p \in Procs : \A id \in names :
          (Returned("remove_image", p) /\ last'.id = id /\ HasKey(ds[p].objects, id))
          => /\ id \notin Range(list_images(ds'[p]))
             /\ \A l \in OwnedLabelIds(ds[p], id) : ~FoundByLabelQuery(ds'[p], l)]_vars

\* The step is a call of op by instance p, however it ended
CalledNow(op, p) ==
    /\ nops' = nops + 1
    /\ last'.op = op /\ last'.p = p

\* C2: right after save_label(image_id, f, tag, info) has returned label id L,
\* get_label_by_image_id(image_id, tag) is L and get_label_info(L) holds the
\* creation timestamp of that save, whichever group image_id is.
C2_SaveThenQuery ==
    [][\A p \in Procs :
          Returned("save_label", p)
          => /\ get_label_by_image_id(ds'[p], last'.id, last'.tag) = last'.ret
             /\ "ts" \in DOMAIN get_label_info(ds'[p], last'.ret)
             /\ get_label_info(ds'[p], last'.ret)["ts"] = now]_vars

\* What the persisted document holds for an image and a tag
DocLabels(doc, image_id) ==
    IF HasKey(Parse(doc).objects, image_id)
    THEN ObjOf(Parse(doc).objects, image_id).labels ELSE <<>>

\* C3: serialized through the lock, save_label calls for distinct images all
\* succeed and all end up in the persisted index file: a save puts its own
\* label Entry into the file and takes no other image's label Entry out of it.
C3_NoLostUpdate ==
    [][\A p \in Procs :
          /\ ( /\ CalledNow("save_label", p)
               /\ HasKey(ds[p].objects, last'.id)
               /\ \A ext \in SourceExts :
                     ~Exists(fs, LabelFile(ds[p], last'.tag, last'.ret \o ext)) )
             => last'.res = "ok"
          /\ Returned("save_label", p)
             => /\ \E j \in 1..Len(DocLabels(cfg'.doc, last'.id)) :
                      /\ DocLabels(cfg'.doc, last'.id)[j].tag = last'.tag
                      /\ DocLabels(cfg'.doc, last'.id)[j].label.id = last'.ret
                /\ \A other \in names \ {last'.id} :
                      DocLabels(cfg'.doc, other) = DocLabels(cfg.doc, other)]_vars

\* C4: refresh() run twice in a row, nothing on disk changing in between,
\* invalidates nothing the second time and leaves the Index as it was.
C4_RefreshIdempotent ==
    [][\A p \in Procs :
          (last.op = "refresh" /\ last.p = p /\ last.res = "ok" /\ Returned("refresh", p))
          => last'.n = 0 /\ ds'[p] = ds[p]]_vars

\* Every label id some group of the Index holds under some tag
HeldLabelIds(d) ==
    UNION {{d.objects[i].labels[j].label.id : j \in 1..Len(d.objects[i].labels)} :
           i \in 1..Len(d.objects)}

\* The ids of the label files on disk that are orphans for an Index: the
\* inferred image id has no group and no image file, and the Index holds no
\* Entry of that label id
OrphanLabelIds(f, d) ==
    {l \in {Replace(name, Suffixes(name)) :
                name \in UNION {ListLabelFiles(f, d, tag) : tag \in Tags}} :
        /\ ~HasKey(d.objects, SplitPlus0(l))
        /\ l \notin HeldLabelIds(d)
        /\ \A image_file \in ListImageFiles(f, d) :
              Replace(image_file, Suffixes(image_file)) # SplitPlus0(l)}

\* The calls that run _reconcile_datastore
ReconcilingOps ==
    {"refresh", "init", "add_image", "remove_image", "remove_label",
     "remove_label_by_tag"}

\* C5: a label file that sits in a tag directory while its inferred image id
\* has no group (and no image file) is not adopted by any call that
\* reconciles: its image id gets no group and no query returns its label id.
C5_OrphanNotAdopted ==
    [][\A p \in Procs :
          (nops' = nops + 1 /\ last'.p = p /\ last'.op \in ReconcilingOps)
          => \A l \in OrphanLabelIds(fs, ds[p]) \cap OrphanLabelIds(fs', ds[p]) :
                /\ ~HasKey(ds'[p].objects, SplitPlus0(l))
                /\ l \notin HeldLabelIds(ds'[p])
                /\ ~FoundByLabelQuery(ds'[p], l)]_vars

C5_Witness ==
    /\ last.op = "refresh" /\ last.res = "ok"
    /\ OrphanLabelIds(fs, ds[1]) # {}
    /\ ds[1].objects # <<>>

\* What a new instance loads from the file an instance has just written
Reloaded(p) ==
    init_from_datastore_file(
        [update_datastore_file(Here(p)) EXCEPT !.d = NewDatastore, !.ts = 0]).d

GroupsWith(d, tag) ==
    {i \in 1..Len(d.objects) :
        \E j \in 1..Len(d.objects[i].labels) : d.objects[i].labels[j].tag = tag}

\* get_labeled_images, datalist and status agree with the groups of the Index
CountsAgree(d) ==
    /\ Len(get_labeled_images(d)) = Cardinality(GroupsWith(d, FINAL))
    /\ Range(get_labeled_images(d)) = {d.objects[i].key : i \in GroupsWith(d, FINAL)}
    /\ Len(datalist(d, FINAL)) = Cardinality(GroupsWith(d, FINAL))
    /\ \A i \in GroupsWith(d, FINAL) :
          \E k \in 1..Len(datalist(d, FINAL)) :
             /\ datalist(d, FINAL)[k].image = ImageFile(d, path(d.objects[i].image))
             /\ \E j \in 1..Len(d.objects[i].labels) :
                   /\ d.objects[i].labels[j].tag = FINAL
                   /\ datalist(d, FINAL)[k].label
                         = LabelFile(d, FINAL, path(d.objects[i].labels[j].label))
    /\ status(d).total = Len(d.objects)
    /\ status(d).completed = Cardinality(GroupsWith(d, FINAL))
    /\ DOMAIN status(d).label_tags = {t \in Tags : GroupsWith(d, t) # {}}
    /\ \A t \in DOMAIN status(d).label_tags :
          status(d).label_tags[t] = Cardinality(GroupsWith(d, t))

NoLabelFiles(f, d) == \A tag \in Tags : ListLabelFiles(f, d, tag) = {}

\* C7: get_labeled_images() is the groups with a 'final' label, datalist() has
\* one image/label pair for each of them, status() counts the groups, the
\* groups with a 'final' label and, for every tag, the groups with a label
\* under it; on an empty datastore add_image(img) leaves the datalist empty
\* and a following save_label(img, f, 'final', {}) gives
\* get_labeled_images() = [img] and label_tags = {final: 1}.
C7_CountsAndScenario ==
    /\ [](\A p \in Procs : CountsAgree(ds[p]))
    /\ [][\A p \in Procs :
            /\ ( /\ Returned("add_image", p)
                 /\ ds[p].objects = <<>> /\ NoLabelFiles(fs, ds[p]) )
               => /\ list_images(ds'[p]) = <<last'.ret>>
                  /\ datalist(ds'[p], FINAL) = <<>>
            /\ ( /\ last.op = "add_image" /\ last.p = p /\ last.res = "ok"
                 /\ list_images(ds[p]) = <<last.ret>> /\ NoLabelFiles(fs, ds[p])
                 /\ CalledNow("save_label", p)
                 /\ last'.id = last.ret /\ last'.tag = FINAL )
               => /\ last'.res = "ok"
                  /\ get_labeled_images(ds'[p]) = <<last.ret>>
                  /\ status(ds'[p]).label_tags = (FINAL :> 1)]_vars

C7_Witness ==
    /\ last.op = "save_label" /\ last.res = "ok" /\ last.tag = FINAL
    /\ get_labeled_images(ds[1]) = <<last.id>>
    /\ list_images(ds[1]) = <<last.id>>
    /\ status(ds[1]).label_tags = (FINAL :> 1)
    /\ Len(datalist(ds[1], FINAL)) = 1

\* C8: get_labeled_images() and get_unlabeled_images() are disjoint and
\* together hold exactly the ids of list_images().
C8_LabeledUnlabeledComplement ==
    \A p \in Procs :
        /\ Range(get_labeled_images(ds[p])) \cap Range(get_unlabeled_images(ds[p])) = {}
        /\ Range(get_labeled_images(ds[p])) \cup Range(get_unlabeled_images(ds[p]))
              = Range(list_images(ds[p]))
        /\ Len(get_labeled_images(ds[p])) + Len(get_unlabeled_images(ds[p]))
              = Len(list_images(ds[p]))

C8_Witness ==
    /\ get_labeled_images(ds[1]) # <<>>
    /\ get_unlabeled_images(ds[1]) # <<>>
    /\ \E i \in 1..Len(ds[1].objects) :
          ds[1].objects[i].labels # <<>> /\ ~HasTag(ds[1].objects[i], FINAL)

\* C9: save_label for an image id that is not in the Index ends with
\* ImageNotFoundException; no file is copied, the Index is as it was and the
\* index file is not written.
C9_SaveLabelUnknownImage ==
    [][\A p \in Procs :
          (CalledNow("save_label", p) /\ ~HasKey(ds[p].objects, last'.id))
          => /\ last'.res = "ImageNotFoundException"
             /\ fs' = fs
             /\ ds' = ds
             /\ cfg' = cfg]_vars

C9_Witness ==
    /\ last.op = "save_label" /\ last.res = "ImageNotFoundException"
    /\ ~HasKey(ds[1].objects, last.id)
    /\ ds[1].objects # <<>>

\* new is old overridden by info: the keys of info take its values, the other
\* keys of old keep theirs
Merged(new, old, info) ==
    /\ DOMAIN new = DOMAIN old \cup DOMAIN info
    /\ \A k \in DOMAIN info : new[k] = info[k]
    /\ \A k \in DOMAIN old \ DOMAIN info : new[k] = old[k]

\* C10: update_label_info(L, info) returns for every label id L some group
\* holds under some tag, update_image_info(I, info) for every image id I of
\* the Index; the Entry's info is then its previous info overridden by info,
\* in the Index and in the index file.
C10_UpdateInfo ==
    [][\A p \in Procs :
          /\ (CalledNow("update_image_info", p) /\ HasKey(ds[p].objects, last'.id))
             => /\ last'.res = "ok"
                /\ Merged(ObjOf(ds'[p].objects, last'.id).image.info,
                          ObjOf(ds[p].objects, last'.id).image.info, last'.info)
                /\ Parse(cfg'.doc).objects = ds'[p].objects
          /\ (CalledNow("update_label_info", p) /\ last'.id \in HeldLabelIds(ds[p]))
             => /\ last'.res = "ok"
                /\ \E i \in 1..Len(ds[p].objects) :
                   \E j \in 1..Len(ds[p].objects[i].labels) :
                      /\ ds[p].objects[i].labels[j].label.id = last'.id
                      /\ Merged(ds'[p].objects[i].labels[j].label.info,
                                ds[p].objects[i].labels[j].label.info, last'.info)
                /\ Parse(cfg'.doc).objects = ds'[p].objects]_vars

\* C11: update_image_info for an image id that is not in the Index ends with
\* ImageNotFoundException, update_label_info for a label id no group holds
\* with LabelNotFoundException; the caller gets the exception, the Index and
\* the index file are as they were.
C11_UpdateUnknown ==
    [][\A p \in Procs :
          /\ (CalledNow("update_image_info", p) /\ ~HasKey(ds[p].objects, last'.id))
             => /\ last'.res = "ImageNotFoundException"
                /\ ds' = ds /\ cfg' = cfg /\ fs' = fs
          /\ (CalledNow("update_label_info", p) /\ last'.id \notin HeldLabelIds(ds[p]))
             => /\ last'.res = "LabelNotFoundException"
                /\ ds' = ds /\ cfg' = cfg /\ fs' = fs]_vars

C11_Witness ==
    /\ last.op = "update_image_info" /\ last.res = "ImageNotFoundException"
    /\ ~HasKey(ds[1].objects, last.id)
    /\ ds[1].objects # <<>>

\* The files that back the labels an Index holds under a tag
LabelFilesOf(d, tag) ==
    {LabelFile(d, tag, path(LabelOf(d.objects[i], tag))) : i \in GroupsWith(d, tag)}

\* C12: after remove_label_by_tag(tag) has returned, no group of the Index
\* has a label under tag and none of the label files the Index held under
\* tag is left in the tag directory.
C12_RemoveLabelByTag ==
    [][\A p \in Procs :
          Returned("remove_label_by_tag", p)
          => /\ GroupsWith(ds'[p], last'.tag) = {}
             /\ \A q \in LabelFilesOf(ds[p], last'.tag) : ~Exists(fs', q)]_vars

\* The label Entries of a group whose id is not L, with their tags
OtherLabels(obj, L) ==
    LET T(l) == l.label.id # L IN SelectSeq(obj.labels, T)

\* The files that back the label Entries with id L
BackingFiles(d, L) ==
    UNION {{LabelFile(d, d.objects[i].labels[j].tag, path(d.objects[i].labels[j].label)) :
              j \in {j \in 1..Len(d.objects[i].labels) : d.objects[i].labels[j].label.id = L}} :
           i \in 1..Len(d.objects)}

\* C13: after remove_label(L) for a label id L some group holds has returned,
\* no label Entry with id L is left and its file is deleted; every image
\* group, every label Entry with another id and every other file is as it
\* was.
C13_RemoveLabel ==
    [][\A p \in Procs :
          (Returned("remove_label", p) /\ last'.id \in HeldLabelIds(ds[p]))
          => /\ last'.id \notin HeldLabelIds(ds'[p])
             /\ \A q \in BackingFiles(ds[p], last'.id) : ~Exists(fs', q)
             /\ Len(ds'[p].objects) = Len(ds[p].objects)
             /\ \A i \in 1..Len(ds[p].objects) :
                   /\ ds'[p].objects[i].key = ds[p].objects[i].key
                   /\ ds'[p].objects[i].image = ds[p].objects[i].image
                   /\ OtherLabels(ds'[p].objects[i], last'.id)
                         = OtherLabels(ds[p].objects[i], last'.id)
             /\ \A q \in DOMAIN fs \ BackingFiles(ds[p], last'.id) :
                   Exists(fs', q) /\ fs'[q] = fs[q]
             /\ DOMAIN fs' \subseteq DOMAIN fs]_vars

\* The id and the extension a source file name is made of
SourceStem(image_filename) ==
    CHOOSE id \in names : \E ext \in ImageExts : id \o ext = image_filename

SourceExt(image_filename) ==
    CHOOSE ext \in ImageExts : SourceStem(image_filename) \o ext = image_filename

\* The id add_image is to return for the arguments of the recorded call
ExpectedImageId(call) ==
    IF call.id # <<>> THEN call.id ELSE SourceStem(call.info["image_filename"])

\* The step is a call add_image(image_id, image_filename) of instance p
AddImageCalled(p) ==
    /\ CalledNow("add_image", p)
    /\ "image_filename" \in DOMAIN last'.info

\* C14: after add_image(id, source) has returned id', id' is id, or the source
\* file name without its extension when id is empty, a file or directory
\* id' + extension is in the image root and list_images() holds id',
\* whatever the extension of the source is.
C14_AddImageListed ==
    [][\A p \in Procs :
          (AddImageCalled(p) /\ last'.res = "ok")
          => /\ last'.ret = ExpectedImageId(last')
             /\ Exists(fs', Path("ds", ".", "",
                                 last'.ret \o SourceExt(last'.info["image_filename"])))
             /\ last'.ret \in Range(list_images(ds'[p]))]_vars

\* C15: add_image whose destination, id + extension in the image root, exists
\* already fails; the file system, the Index and the index file are as they
\* were.
C15_AddImageExisting ==
    [][\A p \in Procs :
          ( /\ AddImageCalled(p)
            /\ Exists(fs, Path("ds", ".", "",
                               ExpectedImageId(last')
                                  \o SourceExt(last'.info["image_filename"]))) )
          => /\ last'.res # "ok"
             /\ fs' = fs
             /\ ds' = ds
             /\ cfg' = cfg]_vars

RefreshingOps == {"refresh", "add_image", "remove_image", "remove_label", "init"}

\* The Index matches the disk
MatchesDisk(f, d) ==
    /\ \A i \in 1..Len(d.objects) :
          /\ Exists(f, ImageFile(d, d.objects[i].image.id \o d.objects[i].image.ext))
          /\ \A j \in 1..Len(d.objects[i].labels) :
                Exists(f, LabelFile(d, d.objects[i].labels[j].tag,
                                    d.objects[i].labels[j].label.id
                                       \o d.objects[i].labels[j].label.ext))
    /\ \A q \in DOMAIN f :
          ( /\ q.root = "ds" /\ q.dir = d.images_dir /\ q.tag = "" /\ q.name # <<>>
            /\ \E e \in Extensions : EndsWith(q.name, e) )
          => \E i \in 1..Len(d.objects) :
                d.objects[i].image.id \o d.objects[i].image.ext = q.name

\* The disk holds nothing a reconciliation would pick up: the Index matches
\* the disk and every label file of an indexed image is the file of the label
\* its group holds under the tag
NothingToReconcile(f, d) ==
    /\ MatchesDisk(f, d)
    /\ \A tag \in Tags : \A name \in ListLabelFiles(f, d, tag) :
          \/ ~HasKey(d.objects, SplitPlus0(Replace(name, Suffixes(name))))
          \/ \E i \in GroupsWith(d, tag) :
                LabelOf(d.objects[i], tag).id \o LabelOf(d.objects[i], tag).ext = name

TimestampChanged(p) == cfg.exists /\ config_ts[p] # cfg.mtime

\* The Index and the last-seen timestamp a refresh of instance p starts its
\* reconciliation from
AfterReload(p) ==
    IF TimestampChanged(p) /\ cfg.valid
    THEN St(fs, cfg, Parse(cfg.doc), cfg.mtime)
    ELSE St(fs, cfg, ds[p], config_ts[p])

\* C18: a reload parses the file and replaces the Index if and only if the
\* timestamp of the file is not the last-seen one, and leaves the Index alone
\* when it is; after each write of an instance its last-seen timestamp is the
\* one of the file, so that it never reloads its own write.
C18_ReloadOnTimestamp ==
    [][\A p \in Procs :
          /\ CalledNow("on_modify_event", p)
             => /\ ds'[p] = AfterReload(p).d
                /\ config_ts'[p] = AfterReload(p).ts
                /\ ~TimestampChanged(p) => ds'[p] = ds[p]
          /\ CalledNow("refresh", p)
             => \E r \in reconcile_datastore(AfterReload(p)) :
                   ds'[p] = r.d /\ config_ts'[p] = r.ts /\ cfg' = r.cfg
          /\ (nops' = nops + 1 /\ last'.p = p /\ cfg' # cfg)
             => /\ config_ts'[p] = cfg'.mtime
                /\ ~TimestampChanged(p)']_vars

C18_Witness ==
    /\ last.op \in {"refresh", "on_modify_event"} /\ last.p = 1
    /\ now > 1 /\ cfg.mtime = now /\ cfg.valid
    /\ config_ts[1] = cfg.mtime
    /\ ds[1].base_path = ""

\* C19: the base_path of the Index is the datastore root in every state,
\* also after the Index was reloaded from a file with a new timestamp.
C19_BasePathIsRoot == \A p \in Procs : ds[p].base_path = "ds"

\* C20: an index file that does not parse makes the constructor fail with
\* the parse error; a later reload, by refresh() or by the watcher, lets no
\* parse error out, keeps the Index it had and leaves the lock free.
C20_MalformedIndexFile ==
    [][\A p \in Procs :
          /\ (CalledNow("init", p) /\ cfg.exists /\ ~cfg.valid)
             => last'.res = "ValueError"
          /\ (CalledNow("on_modify_event", p) /\ TimestampChanged(p) /\ ~cfg.valid)
             => /\ last'.res = "ok"
                /\ ~last'.locked
                /\ ds'[p] = ds[p]
          /\ (CalledNow("refresh", p) /\ TimestampChanged(p) /\ ~cfg.valid)
             => /\ last'.res # "ValueError"
                /\ ~last'.locked
                /\ \E r \in reconcile_datastore(Here(p)) : ds'[p] = r.d]_vars

C20_Witness ==
    /\ last.op \in {"refresh", "on_modify_event"} /\ last.p = 1 /\ last.res = "ok"
    /\ cfg.exists /\ ~cfg.valid /\ config_ts[1] # cfg.mtime
    /\ ds[1].objects # <<>>

\* Thread t is inside the write of _update_datastore_file: it has opened the
\* index file for writing and has not written the document yet
InWrite(t) == pc[t] = "write"

\* C21: the writers of the index file exclude each other: a thread inside
\* the write holds the lock, and no two threads are inside the write at the
\* same time.
C21_WritersExclusive ==
    \A t \in Threads :
       InWrite(t) => /\ t \in holders
                     /\ \A u \in Threads : InWrite(u) => u = t

\* The steps of a handler that copy or delete a file of the datastore or
\* write the index file
DiskSteps == {"copy", "open", "write"}

\* C22: a mutating operation holds the lock for the whole of its copy or
\* delete on disk and of the write of the index file that follows: the
\* thread that takes such a step is inside the lock before and after it.
C22_MutationsUnderLock ==
    [][\A t \in Threads :
          (did'.t = t /\ did'.step \in DiskSteps)
          => (t \in holders /\ t \in holders')]_vars

\* The step is one of the observer thread handling an event of the given
\* type that a handler of this instance caused (own) or another program did
Handling(type, own) ==
    /\ did'.t = Watcher
    /\ did'.ev.type \in type
    /\ did'.ev.own = own

\* C23: the watcher running, a "modified" event of the index file that a
\* write of the datastore itself caused never has the Index reloaded or
\* replaced, whatever the order of the writes and of the events.
C23_OwnWriteNoReload ==
    [][Handling({"modified"}, TRUE) => ds'[Me] = ds[Me]]_vars

\* C24: the watcher running, the event of every write another program makes
\* to the index file is handled by a reload from the file, with no
\* reconciliation of the disk, and is never ignored as one the datastore
\* caused itself, whatever writes of its own and whatever pending
\* _ignore_event_config it meets.
C24_ExternalWriteReloads ==
    [][(Handling({"modified"}, FALSE) /\ did'.step \in {"ignored", "handled"})
          => /\ did'.step = "handled"
             /\ pc'[Watcher] = "reload"]_vars

\* C25: the watcher running, the created and deleted events of the
\* datastore's own operations are ignored through _ignore_event_count and
\* start no refresh(), and every created or deleted event another program
\* caused starts a full refresh().  Of the own events the one of the copy of
\* save_label is looked at, since with the watcher running add_image leaves
\* the indexing of its copy to the event.
C25_OwnCreateDeleteIgnored ==
    [][\A own \in BOOLEAN :
          ( /\ Handling({"created", "deleted"}, own)
            /\ did'.step \in {"ignored", "handled"}
            /\ own => did'.ev.src = "label" )
          => IF own
             THEN did'.step = "ignored" /\ pc'[Watcher] = "idle"
             ELSE did'.step = "handled" /\ pc'[Watcher] = "refresh"]_vars

\* A file or directory of the image root holds image id
OnDisk(id) == \E ext \in ImageExts : Exists(fs, Path("ds", ".", "", id \o ext))

Listed(id) == id \in Range(list_images(ds[Me]))

\* add_image has returned id to thread t
AddImageReturned(t, id) ==
    pc[t] = "idle" /\ frame[t].op = "add_image" /\ frame[t].id = id

\* C26: the watcher running and its events delivered in the end, the Index
\* comes to reflect the disk: once add_image has returned id, list_images()
\* holds id at some later time (unless the file is taken away again), and
\* from some time on the ids list_images() holds are those of the images in
\* the image root, whatever other programs put there or removed.
C26_EventuallyReflectsDisk ==
    /\ \A id \in UNION ImageIdSets :
          [](AddImageReturned("t1", id) => <>(Listed(id) \/ ~OnDisk(id)))
    /\ <>[](\A id \in UNION ImageIdSets : Listed(id) <=> OnDisk(id))

\* Thread u is inside a refresh() that began on an Index the disk, as it is
\* now, gives nothing to reconcile with: no file has changed
RefreshingInSync(u) ==
    /\ frame[u].op = "refresh"
    /\ pc[u] # "idle"
    /\ NothingToReconcile(fs, [ds[Me] EXCEPT !.objects = frame[u].before])

\* C27: a read that runs while another thread is in refresh() sees a
\* consistent Index: when no file changes on disk, list_images() returns at
\* every point of the refresh the ids it returned before the refresh, never
\* an emptied or half rebuilt Index.
C27_ReadDuringRefresh ==
    [][\A t \in Callers, u \in Callers :
          ( /\ u # t
            /\ did'.t = t
            /\ did'.step = "list_images"
            /\ RefreshingInSync(u) )
          => Range(did'.ids) = Keys(frame[u].before)]_vars

\* C28: the datastore's own operations never leave the index file
\* corrupted: whenever the lock is free and the file exists, the file holds
\* one complete document that parses, also after reads and reconciliations
\* in other threads and after a write that failed part-way.
C28_IndexFileNeverCorrupt ==
    (holders = {} /\ cfg.exists) => cfg.valid

\* C29: get_labels_by_image_id(image_id) returns all labels of the image:
\* exactly one entry for each tag under which the group holds a label, with
\* the id of that label, also when labels under different tags have the same
\* id.
C29_AllLabelsReturned ==
    \A p \in Procs : \A i \in 1..Len(ds[p].objects) :
       LET obj == ds[p].objects[i]
           r == get_labels_by_image_id(ds[p], obj.key)
       IN  /\ Len(r) = Len(obj.labels)
           /\ \A j \in 1..Len(obj.labels) :
                 \E k \in 1..Len(r) : /\ r[k].tag = obj.labels[j].tag
                                      /\ r[k].id = obj.labels[j].label.id

\* The files of a listing that map to image image_id, in the order of the
\* listing
FilesOf(listing, image_id) ==
    LET OfImage(file) == SplitPlus0(Replace(file, Suffixes(file))) = image_id
    IN  SelectSeq(listing, OfImage)

\* C30: when several files of one tag directory map to the same tag and
\* image, the Index holds for that tag and image, after the discovery of
\* labels, the file that comes last in the order of the directory scan,
\* whichever of the files the Index had on record before.
C30_LastScannedWins ==
    [][\A p \in Procs :
          (CalledNow("refresh", p) /\ last'.res = "ok" /\ DOMAIN last'.info = Tags)
          => \A tag \in Tags : \A i \in 1..Len(ds'[p].objects) :
                LET obj == ds'[p].objects[i]
                    files == FilesOf(last'.info[tag], obj.key)
                IN  Len(files) >= 2
                    => /\ HasTag(obj, tag)
                       /\ path(LabelOf(obj, tag)) = files[Len(files)]]_vars

\* The operations that remove an Entry when they are asked to
RemovalOps == {"remove_image", "remove_label", "remove_label_by_tag"}

\* The keys of the info of the label Entry with id L under tag of group
\* image_id, if the Index d holds such an Entry
HoldsLabel(d, image_id, tag, L) ==
    /\ HasKey(d.objects, image_id)
    /\ HasTag(ObjOf(d.objects, image_id), tag)
    /\ LabelOf(ObjOf(d.objects, image_id), tag).id = L

InfoKeysOfLabel(d, image_id, tag) ==
    DOMAIN LabelOf(ObjOf(d.objects, image_id), tag).info

\* C31: an operation that is not a removal takes no key out of the info of
\* an Entry that exists before and after it: the image Entry of a group
\* keeps every key of its info, and a label Entry that is under the same tag
\* of the same group with the same id afterwards keeps every key of its info
\* (save_label on a tag that has the label already, and refresh(), included).
C31_InfoOnlyMerged ==
    [][\A p \in Procs :
          (nops' = nops + 1 /\ last'.p = p /\ last'.op \notin RemovalOps)
          => \A i \in 1..Len(ds[p].objects) :
                LET obj == ds[p].objects[i] IN
                /\ HasKey(ds'[p].objects, obj.key)
                   => DOMAIN obj.image.info
                         \subseteq DOMAIN ObjOf(ds'[p].objects, obj.key).image.info
                /\ \A j \in 1..Len(obj.labels) :
                      HoldsLabel(ds'[p], obj.key, obj.labels[j].tag, obj.labels[j].label.id)
                      => DOMAIN obj.labels[j].label.info
                            \subseteq InfoKeysOfLabel(ds'[p], obj.key, obj.labels[j].tag)]_vars

\* id is image_id followed by '+' and a variant
IsVariantOf(id, image_id) ==
    /\ Len(id) >= Len(image_id) + 2
    /\ SubSeq(id, 1, Len(image_id)) = image_id
    /\ id[Len(image_id) + 1] = "+"

C33_SavedInfoHoldsLabelInfo ==
    [][\A p \in Procs :
          Returned("save_label", p)
          => LET info == LabelOf(ObjOf(ds'[p].objects, last'.id), last'.tag).info
             IN  /\ "ts" \in DOMAIN info
                 /\ \A k \in DOMAIN last'.info :
                       k \in DOMAIN info /\ info[k] = last'.info[k]]_vars

\* The file of the image Entry of group image_id
ImageFileOf(d, image_id) == ImageFile(d, path(ObjOf(d.objects, image_id).image))

\* C34: remove_image of an image of the Index whose file is on disk, and
\* remove_label of a label the Index holds whose file is on disk, end without
\* an exception and the file is gone afterwards, whether it is a regular file
\* or a directory.
C34_RemovesFileOrDirectory ==
    [][\A p \in Procs :
          /\ ( /\ CalledNow("remove_image", p)
               /\ HasKey(ds[p].objects, last'.id)
               /\ Exists(fs, ImageFileOf(ds[p], last'.id)) )
             => /\ last'.res = "ok"
                /\ ~Exists(fs', ImageFileOf(ds[p], last'.id))
          /\ ( /\ CalledNow("remove_label", p)
               /\ last'.id \in HeldLabelIds(ds[p])
               /\ \A q \in BackingFiles(ds[p], last'.id) : Exists(fs, q) )
             => /\ last'.res = "ok"
                /\ \A q \in BackingFiles(ds[p], last'.id) : ~Exists(fs', q)]_vars

\* The exceptions of the file system a handler can end with
FilesystemErrors == {"OSError", "FileExistsError", "NotADirectoryError"}

\* C35: when the write of the index file, or the copy inside save_label,
\* fails with an error of the file system, the thread does not hold the lock
\* any more once the error has reached its caller.
C35_LockReleasedOnError ==
    [][\A t \in Threads :
          (did'.t = t /\ pc'[t] = "idle" /\ did'.res \in FilesystemErrors)
          => t \notin holders']_vars

\* C36: when remove_image(id) has returned and add_image(id, source) is
\* called next and returns (no watcher running), the group id of the Index
\* has no label: remove_image left no label file of the image that the
\* reconciliation of add_image could take up again.
C36_ReAddedImageHasNoLabels ==
    [][\A p \in Procs :
          ( /\ last.op = "remove_image" /\ last.p = p /\ last.res = "ok"
            /\ ~HasKey(ds[p].objects, last.id)
            /\ Returned("add_image", p)
            /\ last'.id = last.id )
          => /\ HasKey(ds'[p].objects, last.id)
             /\ ObjOf(ds'[p].objects, last.id).labels = <<>>]_vars

\* An Index without the field the file does not hold
WithoutBasePath(d) == [d EXCEPT !.base_path = ""]

AllIdle == \A t \in Threads : pc[t] = "idle"

\* The images save_label has copied a label file for
LabelSavedFor == {id \in names : Exists(fs, LabelFile(ds[Me], FINAL, id \o <<".nii">>))}

\* C38: save_label and update_image_info for an image whose file is on disk
\* and that the Index holds before and after a refresh() another thread is
\* running do not end with ImageNotFoundException; and once every call has
\* finished, the label save_label saved for such an image is in the Index
\* and in the index file.
C38_CallsDuringRefresh ==
    /\ [][\A t \in Callers, u \in Callers :
             ( /\ u # t
               /\ did'.t = t
               /\ did'.step \in {"save_label", "update_image_info"}
               /\ nops' = nops + 1
               /\ RefreshingInSync(u)
               /\ \A i \in 1..Len(did'.ids) : did'.ids[i] \in Keys(frame[u].before) )
             => did'.res # "ImageNotFoundException"]_vars
    /\ [](\A id \in UNION ImageIdSets :
             ( /\ AllIdle
               /\ id \in LabelSavedFor
               /\ HasKey(ds[Me].objects, id)
               /\ Exists(fs, ImageFileOf(ds[Me], id)) )
             => /\ HoldsLabel(ds[Me], id, FINAL, id)
                /\ (cfg.exists /\ cfg.valid) => HoldsLabel(Parse(cfg.doc), id, FINAL, id))

\* The info the index file holds for the image Entry of group image_id
ImageInfoInFile(doc, image_id) ==
    IF HasKey(Parse(doc).objects, image_id)
    THEN ObjOf(Parse(doc).objects, image_id).image.info
    ELSE EmptyInfo

\* C39: two instances on one directory updating the info of images, one call
\* after the other: a writer does not write the file from an Index in memory
\* that lacks a change the other instance has persisted.  Every key the file
\* holds in the info of an image before update_image_info of either instance
\* is in the file after it, with the value it had unless this call gave the
\* key, so that both updates are in the file, and in both Indexes once they
\* are refreshed from it.
C39_NoStaleOverwrite ==
    [][\A p \in Procs :
          Returned("update_image_info", p)
          => \A id \in names :
                LET before == ImageInfoInFile(cfg.doc, id)
                    after == ImageInfoInFile(cfg'.doc, id)
                IN  \A k \in DOMAIN before :
                       /\ k \in DOMAIN after
                       /\ (id # last'.id \/ k \notin DOMAIN last'.info)
                          => after[k] = before[k]]_vars

\* C40: when the Index is built again from the files on disk, the index file
\* gone, every label file save_label wrote for an image is filed under that
\* image again: a label Entry the Index held under a tag of a group, its file
\* on disk, is held after the rebuild by no other group under that tag, for
\* every image id, ids with a '+' included.
C40_RebuildKeepsOwner ==
    [][\A p \in Procs :
          (Returned("init", p) /\ ~cfg.exists)
          => \A i \in 1..Len(ds[p].objects) : \A j \in 1..Len(ds[p].objects[i].labels) :
                LET image_id == ds[p].objects[i].key
                    tag == ds[p].objects[i].labels[j].tag
                    label == ds[p].objects[i].labels[j].label
                IN  ( /\ Exists(fs, LabelFile(ds[p], tag, path(label)))
                      /\ Exists(fs, ImageFileOf(ds[p], image_id)) )
                    => \A other \in Keys(ds'[p].objects) \ {image_id} :
                          ~HoldsLabel(ds'[p], other, tag, label.id)]_vars

====
